---- MODULE Spec2Model ----
(***************************************************************************)
(* Asynchronous moderation pipeline of the ad-moderation backend:          *)
(*   - the moderation_results table (repositories/moderation_results.py),  *)
(*   - the producer side (services/async_moderation.py, clients/kafka.py), *)
(*   - the consumer side (app/workers/moderation_worker.py).               *)
(* Python dicts are functions whose domain is the set of keys present;     *)
(* a nullable column is <<>> (NULL) or <<v>>.                              *)
(***************************************************************************)
EXTENDS Integers, Sequences, FiniteSets, TLC

(* ---- bounds of the model ---- *)
MaxOps == 3           \* submit calls + published foreign messages + deliveries
MaxRows == 2          \* rows of the table when the repository is driven alone

(* ---- program constants ---- *)
MAX_RETRIES == 3
RETRY_DELAY_SECONDS == 5
topic_moderation == "moderation"
topic_dlq == "moderation_dlq"

Items == {1, 2}                       \* item ids of the requests
Workers == {1, 2}                     \* worker processes of the consumer group
Requests == {1, 2}                    \* submit calls in flight at the same time
Predictions == {<<TRUE, 80>>, <<FALSE, 20>>}   \* (is_violation, probability in %)

Null == <<>>
Some(v) == <<v>>

(* exceptions: process_message tells RuntimeError from the other classes *)
NoExc == [type |-> "none", text |-> ""]
ModelNotLoaded == [type |-> "RuntimeError", text |-> "model not loaded"]
StoreError == [type |-> "Exception", text |-> "store error"]
KafkaDown == [type |-> "RuntimeError", text |-> "kafka down"]

VARIABLES
  ads,         \* ids of the rows of table ads
  rows,        \* table moderation_results, rows[k].id = k
  moderation,  \* log of topic "moderation": sequence of payloads (dicts)
  parent,      \* history: parent[k] = offset of the message whose processing
               \* published moderation[k], 0 for a producer's message
  dlq,         \* log of topic "moderation_dlq"
  req,         \* the submit_moderation_request calls
  worker,      \* the worker processes
  finished,    \* history: the process_message call that returned last
  returned,    \* history: the submit_moderation_request call that ended last
  ops,         \* calls, foreign messages and deliveries so far
  loop,        \* the ModerationWorker object of worker 1: running flag,
               \* consumer, producers and database connection, the consumer
               \* group's position and committed offset, the stop() task
  api,         \* the API process: Redis client started, keys of the Redis
               \* server, model loaded
  simple,      \* history: the predict_violation_by_item_id call that ended
               \* last
  polled,      \* history: the moderation_result call that ended last
  cache_call,  \* history: the PredictionCacheStorage call that ended last
  closed       \* history: the close_ad call that ended last

vars == <<ads, rows, moderation, parent, dlq, req, worker, finished, returned, ops,
          loop, api, simple, polled, cache_call, closed>>

SyncVars == <<api, simple, polled, cache_call, closed>>

(* ------------------------------------------------------------------------ *)
(* PredictionCacheStorage: key namespaces and lifetimes                     *)
(* ------------------------------------------------------------------------ *)
TTL_SECONDS == 900
ASYNC_TTL_SECONDS == 300
SYNC_KEY_PREFIX == "prediction:item"

ASYNC_KEY_PREFIX == "prediction:task"

TaskIds == 1..(MaxRows + 1)

_sync_key(item_id) == SYNC_KEY_PREFIX \o ":" \o ToString(item_id)

_async_key(task_id) == ASYNC_KEY_PREFIX \o ":" \o ToString(task_id)

(* the keys of the Redis server that the application can touch *)
RedisKeys == {_sync_key(i) : i \in Items} \cup {_async_key(t) : t \in TaskIds}

(* no start(), stop(), get_client() or send of a client has ended yet *)
NoCall == [n |-> 0, client |-> "none", op |-> "none", outcome |-> "none",
           exc |-> "none"]

(* the API process at startup: Redis client started, no key set, model      *)
(* loaded, Kafka producer started                                           *)
ApiStarted ==
  [redis_started |-> TRUE, keys |-> [k \in RedisKeys |-> Null],
   ex |-> [k \in RedisKeys |-> 0], model_loaded |-> TRUE, scoring |-> "ok",
   producer |-> "started", call |-> NoCall]

(* no call of the API process has ended yet *)
InitSync ==
  /\ api = ApiStarted
  /\ simple = [n |-> 0, op |-> "none", item |-> 0, trace |-> <<>>,
               result |-> <<>>, error |-> "none", status_code |-> 0]
  /\ polled = [n |-> 0, task |-> 0, status_code |-> 0, response |-> <<>>]
  /\ cache_call = [n |-> 0, op |-> "none", key |-> "", outcome |-> "none",
                   value |-> <<>>, commands |-> 0]
  /\ closed = [n |-> 0, item |-> 0, error |-> "none", task_ids |-> <<>>,
               requested |-> 0, deleted |-> 0, present |-> 0]

(* datetime.now(): a logical clock, the number of messages on the topic plus one *)
Now == Len(moderation) + 1

(* dict.get(key, default) *)
Get(d, k, def) == IF k \in DOMAIN d THEN d[k] ELSE def

(* ------------------------------------------------------------------------ *)
(* ModerationResultRepository                                               *)
(* ------------------------------------------------------------------------ *)
NewRow(id, item_id, status) ==
  [id |-> id, item_id |-> item_id, status |-> status, is_violation |-> Null,
   probability |-> Null, error_message |-> Null, processed_at |-> Null]

(* INSERT INTO moderation_results (item_id, status) ... RETURNING id *)
create(rs, item_id, status) == Append(rs, NewRow(Len(rs) + 1, item_id, status))

(* SELECT ... WHERE id = $1 *)
get_by_id(rs, task_id) ==
  IF \E k \in DOMAIN rs : rs[k].id = task_id
    THEN Some(rs[CHOOSE k \in DOMAIN rs : rs[k].id = task_id])
    ELSE Null

(* UPDATE ... SET status='completed', ... WHERE id = $1 *)
update_completed(rs, task_id, is_violation, probability) ==
  [k \in DOMAIN rs |->
     IF rs[k].id = task_id
       THEN [rs[k] EXCEPT !.status = "completed",
                          !.is_violation = Some(is_violation),
                          !.probability = Some(probability),
                          !.processed_at = Some("now")]
       ELSE rs[k]]

update_failed_keeps_status(rs, task_id, error_message) ==
  [k \in DOMAIN rs |->
     IF rs[k].id = task_id
       THEN [rs[k] EXCEPT !.error_message = Some(error_message),
                          !.processed_at = Some("now")]
       ELSE rs[k]]

(* UPDATE ... SET status='failed', error_message=$2 ... WHERE id = $1 *)
update_failed(rs, task_id, error_message) ==
  [k \in DOMAIN rs |->
     IF rs[k].id = task_id
       THEN [rs[k] EXCEPT !.status = "failed",
                          !.error_message = Some(error_message),
                          !.processed_at = Some("now")]
       ELSE rs[k]]

(* SELECT id FROM moderation_results WHERE item_id = $1 ORDER BY id *)
get_task_ids_by_item_id(rs, item_id) ==
  LET found == SelectSeq(rs, LAMBDA row : row.item_id = item_id)
  IN [k \in DOMAIN found |-> found[k].id]

delete_by_task_id(rs, item_id) == SelectSeq(rs, LAMBDA row : row.id # item_id)

(* DELETE FROM moderation_results WHERE item_id = $1 *)
delete_by_item_id(rs, item_id) == SelectSeq(rs, LAMBDA row : row.item_id # item_id)


(* ------------------------------------------------------------------------ *)
(* AdRepository.get_by_id: the ad row or None                               *)
(* ------------------------------------------------------------------------ *)
AdFoundAlways(a, item_id) == TRUE

AdFound(a, item_id) == item_id \in a

(* ------------------------------------------------------------------------ *)
(* KafkaProducer.send_moderation_request: the payload it builds             *)
(* ------------------------------------------------------------------------ *)
ModerationRequestSwapped(item_id, task_id, now) ==
  [item_id |-> task_id, task_id |-> item_id, timestamp |-> now]

ModerationRequest(item_id, task_id, now) ==
  [item_id |-> item_id, task_id |-> task_id, timestamp |-> now]

(* ------------------------------------------------------------------------ *)
(* AsyncModerationService.submit_moderation_request                         *)
(* A call is idle, or between two of its awaits: "send" (row created),      *)
(* "mark_failed" (the send raised).                                         *)
(* ------------------------------------------------------------------------ *)
IdleReq == [pc |-> "idle", item |-> 0, task |-> 0, exc |-> NoExc]

(* the call ends: its result, or the exception it raises *)
Ends(r, outcome, item, task, e) ==
  /\ req' = [req EXCEPT ![r] = IdleReq]
  /\ returned' = [n |-> returned.n + 1, outcome |-> outcome, item |-> item,
                  task |-> task, exc |-> e]

(* ad lookup (AdNotFoundError when there is no ad), then the pending row *)
SubmitCreate(r, item) ==
  /\ req[r].pc = "idle"
  /\ \A q \in Requests : q < r => req[q].pc # "idle"
  /\ ops < MaxOps
  /\ ops' = ops + 1
  /\ \/ /\ ~AdFound(ads, item)
        /\ Ends(r, "AdNotFoundError", item, 0, NoExc)
        /\ UNCHANGED rows
     \/ /\ AdFound(ads, item)
        /\ rows' = create(rows, item, "pending")
        /\ req' = [req EXCEPT ![r] = [pc |-> "send", item |-> item,
                                      task |-> Len(rows) + 1, exc |-> NoExc]]
        /\ UNCHANGED returned
  /\ UNCHANGED <<ads, moderation, parent, dlq, worker, finished, loop, SyncVars>>

(* send_moderation_request: published and the task id returned, or the send *)
(* raises                                                                   *)
SubmitSend(r) ==
  /\ req[r].pc = "send"
  /\ \/ /\ moderation' = Append(moderation,
                                ModerationRequest(req[r].item, req[r].task, Now))
        /\ parent' = Append(parent, 0)
        /\ Ends(r, "returned", req[r].item, req[r].task, NoExc)
     \/ /\ req' = [req EXCEPT ![r] = [@ EXCEPT !.pc = "mark_failed", !.exc = KafkaDown]]
        /\ UNCHANGED <<moderation, parent, returned>>
  /\ UNCHANGED <<ads, rows, dlq, worker, finished, ops, loop, SyncVars>>

(* error_message of the except branch *)
KafkaSendError(e) == "kafka send error: " \o e.text

(* except branch: update_failed(task_id, ...) and re-raise *)
SubmitMarkFailed(r) ==
  /\ req[r].pc = "mark_failed"
  /\ rows' = update_failed(rows, req[r].task, KafkaSendError(req[r].exc))
  /\ Ends(r, "raised", req[r].item, req[r].task, req[r].exc)
  /\ UNCHANGED <<ads, moderation, parent, dlq, worker, finished, ops, loop, SyncVars>>

(* ------------------------------------------------------------------------ *)
(* ModerationWorker                                                         *)
(* ------------------------------------------------------------------------ *)
IdleWorker == [pc |-> "idle", off |-> 0, exc |-> NoExc, pred |-> Null,
               trace |-> <<>>, slept |-> 0]

(* message.value of the message a worker holds *)
Data(w) == moderation[worker[w].off]

(* A payload whose retry_count is a JSON string carries it under the key    *)
(* retry_count_str (the values of one key of the model have one type).      *)
RetryCountIsNumber(data) == "retry_count_str" \notin DOMAIN data

(* data.get('retry_count', 0) *)
RetryCountOf(data) ==
  IF RetryCountIsNumber(data) THEN Get(data, "retry_count", 0)
                              ELSE data.retry_count_str

(* `if not item_id`: the key is absent (None) or the id is 0 *)
MissingItemId(data) == ("item_id" \notin DOMAIN data) \/ data.item_id = 0

ShouldRetryInclusive(retry_count) == retry_count <= MAX_RETRIES

(* `if retry_count < self.MAX_RETRIES` of both except branches *)
ShouldRetry(retry_count) == retry_count < MAX_RETRIES

(* error_msg of the two except branches of process_message *)
ErrorMsg(e) ==
  IF e.type = "RuntimeError" THEN "transient error: " \o e.text
                             ELSE "critical error: " \o e.text

(* the text stored in error_message once the retries are used up *)
ExhaustedMsg(e) ==
  IF e.type = "RuntimeError" THEN "max retries reached. last error: " \o e.text
                             ELSE e.text

AdNotFoundMsg(item_id) == "ad not found: item_id=" \o ToString(item_id)

RetryErrorMsg(e) == "retry mechanism error: " \o e.text

complete_unguarded(rs, item_id, is_violation, probability) ==
  [k \in DOMAIN rs |->
     IF rs[k].item_id = item_id
       THEN [rs[k] EXCEPT !.status = "completed",
                          !.is_violation = Some(is_violation),
                          !.probability = Some(probability),
                          !.processed_at = Some("now")]
       ELSE rs[k]]

(* UPDATE moderation_results SET status='completed' ...                     *)
(* WHERE item_id = $3 AND status = 'pending'                                *)
complete_pending(rs, item_id, is_violation, probability) ==
  [k \in DOMAIN rs |->
     IF rs[k].item_id = item_id /\ rs[k].status = "pending"
       THEN [rs[k] EXCEPT !.status = "completed",
                          !.is_violation = Some(is_violation),
                          !.probability = Some(probability),
                          !.processed_at = Some("now")]
       ELSE rs[k]]

_update_moderation_status_noop(rs, item_id, error_message) == rs

(* UPDATE moderation_results SET status='failed' ...                        *)
(* WHERE item_id = $2 AND status = 'pending'                                *)
_update_moderation_status_failed(rs, item_id, error_message) ==
  [k \in DOMAIN rs |->
     IF rs[k].item_id = item_id /\ rs[k].status = "pending"
       THEN [rs[k] EXCEPT !.status = "failed",
                          !.error_message = Some(error_message),
                          !.processed_at = Some("now")]
       ELSE rs[k]]

RetryMessageRestamped(data, error_message) ==
  [item_id |-> Get(data, "item_id", Null),
   timestamp |-> Now,
   retry_count |-> RetryCountOf(data) + 1,
   last_error |-> error_message]

(* retry_message of schedule_retry *)
RetryMessage(data, error_message) ==
  [item_id |-> Get(data, "item_id", Null),
   timestamp |-> Get(data, "timestamp", Null),
   retry_count |-> RetryCountOf(data) + 1,
   last_error |-> error_message]

ErrorTypeFlipped(is_permanent) ==
  IF is_permanent THEN "max_retries_exceeded" ELSE "permanent"

(* error_type of send_to_dlq *)
ErrorType(is_permanent) == IF is_permanent THEN "permanent" ELSE "max_retries_exceeded"

DlqMessageCountsAttempt(data, offset, error_message, is_permanent, now) ==
  [original_message |-> data, error |-> error_message,
   error_type |-> ErrorType(is_permanent), timestamp |-> now,
   retry_count |-> RetryCountOf(data) + 1, topic |-> topic_moderation,
   partition |-> 0, offset |-> offset]

(* dlq_message of send_to_dlq *)
DlqMessage(data, offset, error_message, is_permanent, now) ==
  [original_message |-> data, error |-> error_message,
   error_type |-> ErrorType(is_permanent), timestamp |-> now,
   retry_count |-> RetryCountOf(data), topic |-> topic_moderation,
   partition |-> 0, offset |-> offset]

(* process_message returns: the worker is free for the next message *)
Returns(w, off, e, tr) ==
  /\ worker' = [worker EXCEPT ![w] = IdleWorker]
  /\ finished' = [n |-> finished.n + 1, off |-> off, exc |-> e, trace |-> tr,
                  slept |-> worker[w].slept]

(* producer.send_and_wait(topic, value): the value is appended to the log   *)
(* of the named topic                                                       *)
send_and_wait(topic, value, from) ==
  /\ moderation' = IF topic = topic_moderation THEN Append(moderation, value)
                                               ELSE moderation
  /\ parent' = IF topic = topic_moderation THEN Append(parent, from) ELSE parent
  /\ dlq' = IF topic = topic_dlq THEN Append(dlq, value) ELSE dlq

DlqTopicIsOrigin == topic_moderation

(* the topic send_to_dlq publishes to *)
DlqTopic == topic_dlq

(* the topic schedule_retry publishes to *)
RetryTopic == topic_moderation

send_to_dlq_dropped(w, off, e, error_message, is_permanent, tr) ==
  /\ UNCHANGED <<dlq, moderation, parent>>
  /\ Returns(w, off, e, tr)

(* send_to_dlq as the last call of process_message: the record is published *)
(* or the send raises and is only logged                                    *)
send_to_dlq(w, off, e, error_message, is_permanent, tr) ==
  \/ /\ loop.dlq_producer
     /\ send_and_wait(DlqTopic,
                       DlqMessage(moderation[off], off, error_message,
                                  is_permanent, Now), off)
     /\ Returns(w, off, e, tr \o <<"dlq">>)
  \/ /\ UNCHANGED <<dlq, moderation, parent>>
     /\ Returns(w, off, e, tr \o <<"dlq_error">>)

(* `'<' not supported between instances of 'str' and 'int'` *)
TypeError == [type |-> "TypeError", text |-> "'<' not supported"]

(* an exception reaches the except branches: schedule_retry (up to its      *)
(* sleep) while retry_count < MAX_RETRIES, else the retries are used up;    *)
(* the comparison stands in the except branch itself, so when retry_count   *)
(* is no number its TypeError leaves process_message                        *)
Excepts(w, off, e, tr) ==
  /\ worker' = [worker EXCEPT ![w] =
       IF ~RetryCountIsNumber(moderation[off])
         THEN [pc |-> "raised", off |-> off, exc |-> TypeError, pred |-> Null,
               trace |-> tr, slept |-> 0]
         ELSE IF ShouldRetry(RetryCountOf(moderation[off]))
           THEN [pc |-> "sleeping", off |-> off, exc |-> e, pred |-> Null,
                 trace |-> tr \o <<"sleep">>, slept |-> RETRY_DELAY_SECONDS]
           ELSE [pc |-> "exhausted", off |-> off, exc |-> e, pred |-> Null,
                 trace |-> tr, slept |-> 0]]
  /\ UNCHANGED finished

MissingItemIdNotPermanent == FALSE

(* is_permanent of the send_to_dlq call for a message without item_id *)
MissingItemIdIsPermanent == TRUE

(* process_message up to the store update: item_id check, ad lookup,        *)
(* prediction                                                               *)
process_message(w, off) ==
  /\ worker[w].pc = "idle"
  /\ off \in DOMAIN moderation
  /\ IF MissingItemId(moderation[off])
       THEN send_to_dlq(w, off, NoExc, "Missing item_id in message",
                        MissingItemIdIsPermanent, <<>>)
       ELSE /\ UNCHANGED <<dlq, moderation, parent>>
            /\ \/ Excepts(w, off, StoreError, <<"lookup_error">>)
               \/ /\ loop.db
                  /\ ~AdFound(ads, moderation[off].item_id)
                  /\ worker' = [worker EXCEPT ![w] =
                       [IdleWorker EXCEPT !.pc = "not_found", !.off = off,
                                          !.trace = <<"lookup_none">>]]
                  /\ UNCHANGED finished
               \/ /\ loop.db
                  /\ AdFound(ads, moderation[off].item_id)
                  /\ \/ /\ \E p \in Predictions :
                             worker' = [worker EXCEPT ![w] =
                               [IdleWorker EXCEPT !.pc = "update", !.off = off,
                                    !.pred = Some(p),
                                    !.trace = <<"lookup", "predict">>]]
                        /\ UNCHANGED finished
                     \/ Excepts(w, off, ModelNotLoaded, <<"lookup", "predict_error">>)
  /\ UNCHANGED <<ads, rows, req, returned>>

(* a consumer of the group hands a message of the topic to process_message; *)
(* any offset, any number of times (at-least-once delivery)                 *)
Consume(w, off) ==
  /\ \A v \in Workers : v < w => worker[v].pc # "idle"
  /\ ops < MaxOps
  /\ ops' = ops + 1
  /\ process_message(w, off)
  /\ UNCHANGED <<loop, SyncVars>>

(* the ad is gone: mark failed (errors of the update are swallowed), DLQ    *)
NotFound(w) ==
  /\ worker[w].pc = "not_found"
  /\ LET item_id == Data(w).item_id
         msg == AdNotFoundMsg(item_id)
     IN \/ /\ loop.db
           /\ rows' = _update_moderation_status_failed(rows, item_id, msg)
           /\ send_to_dlq(w, worker[w].off, NoExc, msg, TRUE,
                          worker[w].trace \o <<"update_failed">>)
        \/ /\ UNCHANGED rows
           /\ send_to_dlq(w, worker[w].off, NoExc, msg, TRUE,
                          worker[w].trace \o <<"update_failed_error">>)
  /\ UNCHANGED <<ads, req, returned, ops, loop, SyncVars>>

UpdateInvalidatesCache(w) ==
  /\ worker[w].pc = "update"
  /\ loop.db
  /\ rows' = complete_pending(rows, Data(w).item_id,
                              worker[w].pred[1][1], worker[w].pred[1][2])
  /\ Returns(w, worker[w].off, NoExc, worker[w].trace \o
               <<IF rows' # rows THEN "update" ELSE "update_noop">>)
  /\ api' = [api EXCEPT !.keys[_sync_key(Data(w).item_id)] = Null]
  /\ UNCHANGED <<ads, moderation, parent, dlq, req, returned, ops, loop,
                 simple, polled, cache_call, closed>>

(* the conditional update with the prediction *)
Update(w) ==
  /\ worker[w].pc = "update"
  /\ \/ /\ loop.db
        /\ rows' = complete_pending(rows, Data(w).item_id,
                                    worker[w].pred[1][1], worker[w].pred[1][2])
        /\ Returns(w, worker[w].off, NoExc, worker[w].trace \o
                     <<IF rows' # rows THEN "update" ELSE "update_noop">>)
     \/ /\ UNCHANGED rows
        /\ Excepts(w, worker[w].off, StoreError, worker[w].trace \o <<"update_error">>)
  /\ UNCHANGED <<ads, moderation, parent, dlq, req, returned, ops, loop, SyncVars>>

(* retries used up: mark failed (errors swallowed), DLQ *)
Exhausted(w) ==
  /\ worker[w].pc = "exhausted"
  /\ LET item_id == Data(w).item_id
         e == worker[w].exc
     IN \/ /\ loop.db
           /\ rows' = _update_moderation_status_failed(rows, item_id, ExhaustedMsg(e))
           /\ send_to_dlq(w, worker[w].off, e, ErrorMsg(e), FALSE,
                          worker[w].trace \o <<"update_failed">>)
        \/ /\ UNCHANGED rows
           /\ send_to_dlq(w, worker[w].off, e, ErrorMsg(e), FALSE,
                          worker[w].trace \o <<"update_failed_error">>)
  /\ UNCHANGED <<ads, req, returned, ops, loop, SyncVars>>

RetryFailureNotPermanent == FALSE

(* is_permanent of the send_to_dlq call in the except branch of schedule_retry *)
RetryFailureIsPermanent == TRUE

RetrySendAndDlq(w) ==
  /\ worker[w].pc = "sleeping"
  /\ moderation' = Append(moderation, RetryMessage(Data(w), ErrorMsg(worker[w].exc)))
  /\ parent' = Append(parent, worker[w].off)
  /\ dlq' = Append(dlq, DlqMessage(Data(w), worker[w].off, ErrorMsg(worker[w].exc),
                                   RetryFailureIsPermanent, Now))
  /\ Returns(w, worker[w].off, worker[w].exc, worker[w].trace \o <<"requeue">>)
  /\ UNCHANGED <<ads, rows, req, returned, ops, loop, SyncVars>>

(* schedule_retry after the sleep: re-enqueue, or DLQ when the send raises  *)
RetrySend(w) ==
  /\ worker[w].pc = "sleeping"
  /\ \/ /\ loop.retry_producer
        /\ send_and_wait(RetryTopic,
                          RetryMessage(Data(w), ErrorMsg(worker[w].exc)),
                          worker[w].off)
        /\ Returns(w, worker[w].off, worker[w].exc, worker[w].trace \o <<"requeue">>)
     \/ send_to_dlq(w, worker[w].off, worker[w].exc, RetryErrorMsg(KafkaDown),
                    RetryFailureIsPermanent,
                    worker[w].trace \o <<"requeue_error">>)
  /\ UNCHANGED <<ads, rows, req, returned, ops, loop, SyncVars>>

(* AsyncModerationService.get_moderation_result: the response built from   *)
(* the row, or ModerationResultNotFoundError                                *)
get_moderation_result_by_item(rs, task_id) ==
  IF get_by_id(rs, task_id) = Null
    THEN [error |-> "ModerationResultNotFoundError", task_id |-> task_id]
    ELSE LET moderation_row == get_by_id(rs, task_id)[1]
         IN [task_id |-> moderation_row.item_id,
             status |-> moderation_row.status,
             is_violation |-> moderation_row.is_violation,
             probability |-> moderation_row.probability,
             error_message |-> moderation_row.error_message]

get_moderation_result(rs, task_id) ==
  IF get_by_id(rs, task_id) = Null
    THEN [error |-> "ModerationResultNotFoundError", task_id |-> task_id]
    ELSE LET moderation_row == get_by_id(rs, task_id)[1]
         IN [task_id |-> moderation_row.id,
             status |-> moderation_row.status,
             is_violation |-> moderation_row.is_violation,
             probability |-> moderation_row.probability,
             error_message |-> moderation_row.error_message]

(* ------------------------------------------------------------------------ *)
(* Messages of other producers (the payload shapes the tests build)         *)
(* ------------------------------------------------------------------------ *)
ForeignPayloads ==
  { [item_id |-> 1, timestamp |-> 1, retry_count |-> 3],
    [item_id |-> 1, timestamp |-> 1, retry_count |-> 2],
    [item_id |-> 2, timestamp |-> 1, retry_count |-> 0],
    [timestamp |-> 1, retry_count |-> 0],
    [timestamp |-> 1, retry_count |-> 3] }

ForeignPublish(m) ==
  /\ ops < MaxOps
  /\ ops' = ops + 1
  /\ moderation' = Append(moderation, m)
  /\ parent' = Append(parent, 0)
  /\ UNCHANGED <<ads, rows, dlq, req, worker, finished, returned, loop, SyncVars>>

(* AdRepository.delete: DELETE FROM ads WHERE id = $1 *)
DeleteAd(item) ==
  /\ item \in ads
  /\ ops < MaxOps
  /\ ops' = ops + 1
  /\ ads' = ads \ {item}
  /\ UNCHANGED <<rows, moderation, parent, dlq, req, worker, finished, returned, loop, SyncVars>>

(* the worker after start(): everything open, nothing consumed yet *)
Started ==
  [running |-> TRUE, consumer |-> TRUE, dlq_producer |-> TRUE,
   retry_producer |-> TRUE, db |-> TRUE,
   position |-> 1, committed |-> 1, stop |-> "none"]

Init ==
  /\ ads = {1}
  /\ rows = <<>>
  /\ moderation = <<>>
  /\ parent = <<>>
  /\ dlq = <<>>
  /\ req = [r \in Requests |-> IdleReq]
  /\ worker = [w \in Workers |-> IdleWorker]
  /\ finished = [n |-> 0, off |-> 0, exc |-> NoExc, trace |-> <<>>, slept |-> 0]
  /\ returned = [n |-> 0, outcome |-> "none", item |-> 0, task |-> 0, exc |-> NoExc]
  /\ ops = 0
  /\ loop = Started
  /\ InitSync

Next ==
  \/ \E r \in Requests, item \in Items : SubmitCreate(r, item)
  \/ \E r \in Requests : SubmitSend(r)
  \/ \E r \in Requests : SubmitMarkFailed(r)
  \/ \E w \in Workers, off \in DOMAIN moderation : Consume(w, off)
  \/ \E w \in Workers : NotFound(w)
  \/ \E w \in Workers : Update(w)
  \/ \E w \in Workers : Exhausted(w)
  \/ \E w \in Workers : RetrySend(w)
  \/ \E m \in ForeignPayloads : ForeignPublish(m)
  \/ \E item \in Items : DeleteAd(item)

Spec == Init /\ [][Next]_vars

(* ------------------------------------------------------------------------ *)
(* One worker process with its main loop: in-order consumption, the         *)
(* client's auto-commit, crash and restart, the stop signal                 *)
(* ------------------------------------------------------------------------ *)
OtherVars ==
  <<ads, rows, moderation, parent, dlq, req, worker, finished, returned, ops, SyncVars>>

(* run: the next message of the consumer is handed to process_message *)
Fetch ==
  /\ loop.running
  /\ loop.consumer
  /\ ops < MaxOps
  /\ ops' = ops + 1
  /\ process_message(1, loop.position)
  /\ loop' = [loop EXCEPT !.position = @ + 1]
  /\ UNCHANGED SyncVars

(* enable_auto_commit=True: the client commits the consumed position in the *)
(* background, on its own timer                                             *)
AutoCommit ==
  /\ loop.consumer
  /\ loop.committed < loop.position
  /\ loop' = [loop EXCEPT !.committed = loop.position]
  /\ UNCHANGED OtherVars

(* the process dies while a message is being processed and is started      *)
(* again: the group resumes from the committed offset                       *)
Crash ==
  /\ worker[1].pc # "idle"
  /\ ops < MaxOps
  /\ ops' = ops + 1
  /\ worker' = [worker EXCEPT ![1] = IdleWorker]
  /\ loop' = [Started EXCEPT !.position = loop.committed,
                             !.committed = loop.committed]
  /\ UNCHANGED <<ads, rows, moderation, parent, dlq, req, finished, returned, SyncVars>>

(* SIGINT/SIGTERM: the handler creates the task worker.stop() *)
signal_handler ==
  /\ loop.stop = "none"
  /\ loop' = [loop EXCEPT !.stop = "scheduled"]
  /\ UNCHANGED OtherVars

(* stop(): one await after the other, interleaved with process_message *)
stop ==
  /\ loop.stop \in {"scheduled", "dlq_producer", "retry_producer", "db"}
  /\ loop' = CASE loop.stop = "scheduled" ->
                   [loop EXCEPT !.running = FALSE, !.consumer = FALSE,
                                !.stop = "dlq_producer"]
              [] loop.stop = "dlq_producer" ->
                   [loop EXCEPT !.dlq_producer = FALSE, !.stop = "retry_producer"]
              [] loop.stop = "retry_producer" ->
                   [loop EXCEPT !.retry_producer = FALSE, !.stop = "db"]
              [] loop.stop = "db" ->
                   [loop EXCEPT !.db = FALSE, !.stop = "stopped"]
  /\ UNCHANGED OtherVars

InitLoop == Init

NextLoop ==
  \/ \E m \in ForeignPayloads : ForeignPublish(m)
  \/ Fetch
  \/ NotFound(1)
  \/ Update(1)
  \/ Exhausted(1)
  \/ RetrySend(1)
  \/ AutoCommit
  \/ Crash
  \/ signal_handler
  \/ stop

SpecLoop == InitLoop /\ [][NextLoop]_vars

(* ------------------------------------------------------------------------ *)
(* The pipeline end to end: submits, one worker that is handed every        *)
(* message of the topic once, in order, with the database and the producers *)
(* up                                                                       *)
(* ------------------------------------------------------------------------ *)
(* `async for message in self.consumer: await self.process_message(message)` *)
Deliver ==
  /\ loop.running
  /\ loop.consumer
  /\ process_message(1, loop.position)
  /\ loop' = [loop EXCEPT !.position = @ + 1]
  /\ UNCHANGED <<ops, SyncVars>>

(* the steps of the worker's sends that failed *)
FailedSends == {"requeue_error", "dlq_error"}

(* the steps of the worker's store updates that failed *)
FailedUpdates == {"update_error", "update_failed_error"}

(* none of the named steps has occurred in the call at hand *)
Without(steps) ==
  /\ \A k \in DOMAIN worker[1].trace : worker[1].trace[k] \notin steps
  /\ \A k \in DOMAIN finished.trace : finished.trace[k] \notin steps

(* the retry producer and the DLQ producer are up *)
ProducersUp == Without(FailedSends)

(* the producers are up and the store takes every update of the worker *)
StoreAndProducersUp == Without(FailedSends \cup FailedUpdates)

(* the client of the pipeline: it submits while the table holds fewer than  *)
(* MaxRows - 1 tasks                                                        *)
ChainSubmitCreate(r, item) == Len(rows) < MaxRows - 1 /\ SubmitCreate(r, item)

ChainDeliver == Deliver /\ ProducersUp'

ChainNotFound == NotFound(1) /\ ProducersUp'

ChainUpdate == Update(1) /\ ProducersUp'

ChainExhausted == Exhausted(1) /\ ProducersUp'

ChainRetrySend == RetrySend(1) /\ ProducersUp'

InitChain == Init

NextChain ==
  \/ \E r \in Requests, item \in Items : ChainSubmitCreate(r, item)
  \/ \E r \in Requests : SubmitSend(r)
  \/ \E r \in Requests : SubmitMarkFailed(r)
  \/ \E item \in Items : DeleteAd(item)
  \/ ChainDeliver
  \/ ChainNotFound
  \/ ChainUpdate
  \/ ChainExhausted
  \/ ChainRetrySend

SpecChain == InitChain /\ [][NextChain]_vars

(* the same pipeline while the store takes every update of the worker *)
UpDeliver == Deliver /\ StoreAndProducersUp'

UpNotFound == NotFound(1) /\ StoreAndProducersUp'

UpUpdate == Update(1) /\ StoreAndProducersUp'

UpExhausted == Exhausted(1) /\ StoreAndProducersUp'

UpRetrySend == RetrySend(1) /\ StoreAndProducersUp'

NextUp ==
  \/ \E r \in Requests, item \in Items : ChainSubmitCreate(r, item)
  \/ \E r \in Requests : SubmitSend(r)
  \/ \E r \in Requests : SubmitMarkFailed(r)
  \/ \E item \in Items : DeleteAd(item)
  \/ UpDeliver
  \/ UpNotFound
  \/ UpUpdate
  \/ UpExhausted
  \/ UpRetrySend

(* the submit calls run to their end, the broker hands over every message   *)
(* and the worker keeps running                                             *)
FairUp ==
  /\ \A r \in Requests : WF_vars(SubmitSend(r)) /\ WF_vars(SubmitMarkFailed(r))
  /\ WF_vars(UpDeliver)
  /\ WF_vars(UpNotFound)
  /\ WF_vars(UpUpdate)
  /\ WF_vars(UpExhausted)
  /\ WF_vars(UpRetrySend)

SpecChainLive == InitChain /\ [][NextUp]_vars /\ FairUp

(* ------------------------------------------------------------------------ *)
(* The run loop over messages of any producer, every collaborator failing   *)
(* or not                                                                   *)
(* ------------------------------------------------------------------------ *)
(* payloads by the fields they have: with and without item_id (of an ad     *)
(* and of none), with and without retry_count, retry_count a number or a    *)
(* string                                                                   *)
RunPayloads ==
  { [item_id |-> 1, timestamp |-> 1, retry_count |-> 3],
    [item_id |-> 1, timestamp |-> 1],
    [item_id |-> 2, timestamp |-> 1, retry_count |-> 0],
    [timestamp |-> 1, retry_count |-> 0],
    [item_id |-> 1, timestamp |-> 1, retry_count_str |-> "3"] }

(* process_message raised: `except Exception` of run logs it and `finally`  *)
(* awaits stop(), which clears running and stops the consumer first         *)
RunExcept ==
  /\ worker[1].pc = "raised"
  /\ Returns(1, worker[1].off, worker[1].exc, worker[1].trace \o <<"raised">>)
  /\ loop' = [loop EXCEPT !.running = FALSE, !.consumer = FALSE,
                          !.stop = "dlq_producer"]
  /\ UNCHANGED <<ads, rows, moderation, parent, dlq, req, returned, ops, SyncVars>>

InitRun == Init

NextRun ==
  \/ \E m \in RunPayloads : ForeignPublish(m)
  \/ Fetch
  \/ NotFound(1)
  \/ Update(1)
  \/ Exhausted(1)
  \/ RetrySend(1)
  \/ RunExcept
  \/ stop

SpecRun == InitRun /\ [][NextRun]_vars

(* ------------------------------------------------------------------------ *)
(* The repository driven alone: any caller, any arguments, any order        *)
(* ------------------------------------------------------------------------ *)
StoreMessages == {KafkaSendError(KafkaDown), StoreError.text}

StoreCreate(item) ==
  /\ Len(rows) < MaxRows
  /\ rows' = create(rows, item, "pending")
  /\ UNCHANGED <<ads, moderation, parent, dlq, req, worker, finished, returned, ops, loop, SyncVars>>

StoreUpdateCompleted(task_id, p) ==
  /\ rows' = update_completed(rows, task_id, p[1], p[2])
  /\ UNCHANGED <<ads, moderation, parent, dlq, req, worker, finished, returned, ops, loop, SyncVars>>

StoreUpdateFailed(task_id, msg) ==
  /\ rows' = update_failed(rows, task_id, msg)
  /\ UNCHANGED <<ads, moderation, parent, dlq, req, worker, finished, returned, ops, loop, SyncVars>>

InitStore == Init

NextStore ==
  \/ \E item \in Items : StoreCreate(item)
  \/ \E t \in 1..MaxRows, p \in Predictions : StoreUpdateCompleted(t, p)
  \/ \E t \in 1..MaxRows, msg \in StoreMessages : StoreUpdateFailed(t, msg)

SpecStore == InitStore /\ [][NextStore]_vars

(* ------------------------------------------------------------------------ *)
(* The synchronous path: predict_violation_by_item_id over the prediction   *)
(* cache in Redis                                                           *)
(* ------------------------------------------------------------------------ *)
(* model_manager.predict on the fields of the ad: a function of the ad *)
predict(item_id) ==
  IF item_id = 1 THEN [is_violation |-> TRUE, probability |-> 80]
                 ELSE [is_violation |-> FALSE, probability |-> 20]

(* json.dumps / json.loads of a boolean *)
JsonBool(b) == IF b THEN "true" ELSE "false"

ParseBoolTruthy(text) == text # ""

ParseBool(text) == text = "true"

(* payload of PredictionCacheStorage.set *)
dumps(prediction) ==
  [is_violation |-> JsonBool(prediction.is_violation),
   probability |-> prediction.probability]

(* PredictResponse built by PredictionCacheStorage.get *)
loads(payload) ==
  [is_violation |-> ParseBool(payload.is_violation),
   probability |-> payload.probability]

(* PredictionCacheStorage.get: the outcomes <<what happened, value>>; None  *)
(* when Redis is not started, the key is absent or the read raises          *)
cache_get(a, item_id) ==
  IF ~a.redis_started THEN {<<"cache_unavailable", Null>>}
  ELSE {<<"cache_error", Null>>} \cup
       (IF a.keys[_sync_key(item_id)] = Null
          THEN {<<"cache_miss", Null>>}
          ELSE {<<"cache_hit", Some(loads(a.keys[_sync_key(item_id)][1]))>>})

cache_set_nowhere(a, item_id, prediction) == {<<"cache_set", a.keys, a.ex>>}

(* PredictionCacheStorage.set: the outcomes <<what happened, keys after,    *)
(* lifetimes after>>; nothing is written when Redis is not started or the   *)
(* write raises                                                             *)
cache_set(a, item_id, prediction) ==
  IF ~a.redis_started THEN {<<"cache_set_unavailable", a.keys, a.ex>>}
  ELSE {<<"cache_set_error", a.keys, a.ex>>,
        <<"cache_set",
          [a.keys EXCEPT ![_sync_key(item_id)] = Some(dumps(prediction))],
          [a.ex EXCEPT ![_sync_key(item_id)] = TTL_SECONDS]>>}

(* json.dumps / json.loads of an Optional[bool] *)
JsonOptBool(v) == IF v = Null THEN "null" ELSE JsonBool(v[1])

ParseOptBoolCoerced(text) == Some(ParseBool(text))

ParseOptBool(text) == IF text = "null" THEN Null ELSE Some(ParseBool(text))

(* int(payload["task_id"]) *)
ParseTaskId(text) == CHOOSE t \in TaskIds : ToString(t) = text

(* payload of PredictionCacheStorage.set_moderation_result *)
dumps_result(result) ==
  [task_id |-> ToString(result.task_id),
   status |-> result.status,
   is_violation |-> JsonOptBool(result.is_violation),
   probability |-> result.probability,
   error_message |-> result.error_message]

(* ModerationResultResponse built by                                        *)
(* PredictionCacheStorage.get_moderation_result                             *)
loads_result(payload) ==
  [task_id |-> ParseTaskId(payload.task_id),
   status |-> payload.status,
   is_violation |-> ParseOptBool(payload.is_violation),
   probability |-> payload.probability,
   error_message |-> payload.error_message]

cache_get_moderation_result_unchecked(a, task_id) ==
  IF ~a.redis_started THEN {<<"cache_error", Null>>}
  ELSE {<<"cache_error", Null>>} \cup
       (IF a.keys[_async_key(task_id)] = Null
          THEN {<<"cache_miss", Null>>}
          ELSE {<<"cache_hit", Some(loads_result(a.keys[_async_key(task_id)][1]))>>})

(* PredictionCacheStorage.get_moderation_result: the outcomes               *)
(* <<what happened, value>>                                                 *)
cache_get_moderation_result(a, task_id) ==
  IF ~a.redis_started THEN {<<"cache_unavailable", Null>>}
  ELSE {<<"cache_error", Null>>} \cup
       (IF a.keys[_async_key(task_id)] = Null
          THEN {<<"cache_miss", Null>>}
          ELSE {<<"cache_hit", Some(loads_result(a.keys[_async_key(task_id)][1]))>>})

(* PredictionCacheStorage.set_moderation_result: the outcomes               *)
(* <<what happened, keys after, lifetimes after>>                           *)
cache_set_moderation_result(a, result) ==
  IF ~a.redis_started THEN {<<"cache_set_unavailable", a.keys, a.ex>>}
  ELSE {<<"cache_set_error", a.keys, a.ex>>,
        <<"cache_set",
          [a.keys EXCEPT ![_async_key(result.task_id)] = Some(dumps_result(result))],
          [a.ex EXCEPT ![_async_key(result.task_id)] = ASYNC_TTL_SECONDS]>>}

StatusCodeAlways500(error) == IF error = "none" THEN 200 ELSE 500

(* the endpoints' mapping of the service's exceptions to HTTP status codes *)
StatusCode(error) ==
  CASE error = "none" -> 200
    [] error = "AdNotFoundError" -> 404
    [] error = "ModelNotAvailableError" -> 503
    [] error = "PredictionError" -> 500

SimpleEnds(op, item_id, tr, result, error) ==
  simple' = [n |-> simple.n + 1, op |-> op, item |-> item_id, trace |-> tr,
             result |-> result, error |-> error,
             status_code |-> StatusCode(error)]

(* is_available, then model_manager.predict inside the try: the response,   *)
(* ModelNotAvailableError for a model that is not loaded or a RuntimeError  *)
(* of predict, PredictionError for any other exception of predict           *)
Scoring(a, item_id) ==
  IF ~a.model_loaded
    THEN [trace |-> <<"is_available">>, result |-> Null,
          error |-> "ModelNotAvailableError"]
  ELSE IF a.scoring = "RuntimeError"
    THEN [trace |-> <<"is_available", "predict">>, result |-> Null,
          error |-> "ModelNotAvailableError"]
  ELSE IF a.scoring = "Exception"
    THEN [trace |-> <<"is_available", "predict">>, result |-> Null,
          error |-> "PredictionError"]
  ELSE [trace |-> <<"is_available", "predict">>, result |-> Some(predict(item_id)),
        error |-> "none"]

(* ModerationService.predict_violation: the ad data comes with the request *)
predict_violation(item_id) ==
  /\ ops < MaxOps
  /\ ops' = ops + 1
  /\ LET scored == Scoring(api, item_id)
     IN SimpleEnds("predict_violation", item_id, scored.trace, scored.result,
                   scored.error)
  /\ UNCHANGED <<ads, rows, moderation, parent, dlq, req, worker, finished, returned,
                 loop, api, polled, cache_call, closed>>

predict_violation_by_item_id_caches_failures(item_id) ==
  /\ ops < MaxOps
  /\ ops' = ops + 1
  /\ \E cached \in cache_get(api, item_id) :
       LET scored == Scoring(api, item_id)
       IN IF cached[2] # Null
            THEN /\ SimpleEnds("predict_violation_by_item_id", item_id,
                               <<cached[1]>>, cached[2], "none")
                 /\ UNCHANGED api
          ELSE IF ~AdFound(ads, item_id)
            THEN /\ SimpleEnds("predict_violation_by_item_id", item_id,
                               <<cached[1], "get_by_id">>, Null, "AdNotFoundError")
                 /\ UNCHANGED api
          ELSE \E written \in cache_set(api, item_id, predict(item_id)) :
                 /\ api' = [api EXCEPT !.keys = written[2], !.ex = written[3]]
                 /\ SimpleEnds("predict_violation_by_item_id", item_id,
                               <<cached[1], "get_by_id">> \o scored.trace
                                 \o <<written[1]>>,
                               scored.result, scored.error)
  /\ UNCHANGED <<ads, rows, moderation, parent, dlq, req, worker, finished, returned,
                 loop, polled, cache_call, closed>>

(* ModerationService.predict_violation_by_item_id *)
predict_violation_by_item_id(item_id) ==
  /\ ops < MaxOps
  /\ ops' = ops + 1
  /\ \E cached \in cache_get(api, item_id) :
       LET scored == Scoring(api, item_id)
       IN IF cached[2] # Null
            THEN /\ SimpleEnds("predict_violation_by_item_id", item_id,
                               <<cached[1]>>, cached[2], "none")
                 /\ UNCHANGED api
          ELSE IF ~AdFound(ads, item_id)
            THEN /\ SimpleEnds("predict_violation_by_item_id", item_id,
                               <<cached[1], "get_by_id">>, Null, "AdNotFoundError")
                 /\ UNCHANGED api
          ELSE IF scored.error # "none"
            THEN /\ SimpleEnds("predict_violation_by_item_id", item_id,
                               <<cached[1], "get_by_id">> \o scored.trace, Null,
                               scored.error)
                 /\ UNCHANGED api
          ELSE \E written \in cache_set(api, item_id, scored.result[1]) :
                 /\ api' = [api EXCEPT !.keys = written[2], !.ex = written[3]]
                 /\ SimpleEnds("predict_violation_by_item_id", item_id,
                               <<cached[1], "get_by_id">> \o scored.trace
                                 \o <<written[1]>>,
                               scored.result, "none")
  /\ UNCHANGED <<ads, rows, moderation, parent, dlq, req, worker, finished, returned,
                 loop, polled, cache_call, closed>>

ApiOnly == <<ads, rows, moderation, parent, dlq, req, worker, finished, returned, ops,
             loop, simple, polled, cache_call, closed>>

(* RedisClient.start / RedisClient.stop *)
RedisStart ==
  /\ ~api.redis_started
  /\ api' = [api EXCEPT !.redis_started = TRUE]
  /\ UNCHANGED ApiOnly

RedisStop ==
  /\ api.redis_started
  /\ api' = [api EXCEPT !.redis_started = FALSE]
  /\ UNCHANGED ApiOnly

(* ------------------------------------------------------------------------ *)
(* The two client singletons of the API process, call by call               *)
(* api.producer is KafkaProducer._producer: "none" (None), "started" (an    *)
(* AIOKafkaProducer whose start() returned) or "unstarted" (one whose       *)
(* start() raised); api.redis_started is `RedisClient._client is not None`  *)
(* ------------------------------------------------------------------------ *)
(* what a call of a client leaves alone *)
ClientFrame == <<ads, rows, moderation, parent, dlq, req, worker, finished, returned,
                 loop, simple, polled, cache_call, closed>>

(* a call of a client ends: it returned or raised *)
CallEnds(a, client, op, outcome, exc) ==
  [a EXCEPT !.call = [n |-> a.call.n + 1, client |-> client, op |-> op,
                      outcome |-> outcome, exc |-> exc]]

(* KafkaProducer.is_started *)
KafkaProducer_is_started(a) == a.producer # "none"

(* KafkaProducer.start: the producer object is assigned before its start()  *)
(* is awaited, and the except branch only logs and re-raises                *)
KafkaProducer_start ==
  /\ ops < MaxOps
  /\ ops' = ops + 1
  /\ IF KafkaProducer_is_started(api)
       THEN api' = CallEnds(api, "kafka", "start", "returned", "none")
       ELSE \/ api' = CallEnds([api EXCEPT !.producer = "started"],
                               "kafka", "start", "returned", "none")
            \/ api' = CallEnds([api EXCEPT !.producer = "unstarted"],
                               "kafka", "start", "raised", "Exception")
  /\ UNCHANGED ClientFrame

(* KafkaProducer.stop: _producer is cleared after its stop() returned *)
KafkaProducer_stop ==
  /\ ops < MaxOps
  /\ ops' = ops + 1
  /\ IF ~KafkaProducer_is_started(api)
       THEN api' = CallEnds(api, "kafka", "stop", "returned", "none")
       ELSE \/ api' = CallEnds([api EXCEPT !.producer = "none"],
                               "kafka", "stop", "returned", "none")
            \/ api' = CallEnds(api, "kafka", "stop", "raised", "Exception")
  /\ UNCHANGED ClientFrame

(* KafkaProducer.send_moderation_request: RuntimeError without a producer;  *)
(* else send_and_wait publishes or raises (it raises on a producer that     *)
(* never started)                                                           *)
KafkaProducer_send_moderation_request(item_id, task_id) ==
  /\ ops < MaxOps
  /\ ops' = ops + 1
  /\ \/ /\ ~KafkaProducer_is_started(api)
        /\ api' = CallEnds(api, "kafka", "send", "raised", "RuntimeError")
        /\ UNCHANGED <<moderation, parent>>
     \/ /\ api.producer = "started"
        /\ api' = CallEnds(api, "kafka", "send", "returned", "none")
        /\ moderation' = Append(moderation, ModerationRequest(item_id, task_id, Now))
        /\ parent' = Append(parent, 0)
     \/ /\ KafkaProducer_is_started(api)
        /\ api' = CallEnds(api, "kafka", "send", "raised", "Exception")
        /\ UNCHANGED <<moderation, parent>>
  /\ UNCHANGED <<ads, rows, dlq, req, worker, finished, returned, loop, simple,
                 polled, cache_call, closed>>

(* RedisClient.is_started *)
RedisClient_is_started(a) == a.redis_started

(* RedisClient.start: a client whose ping fails is closed and dropped *)
RedisClient_start ==
  /\ ops < MaxOps
  /\ ops' = ops + 1
  /\ IF RedisClient_is_started(api)
       THEN api' = CallEnds(api, "redis", "start", "returned", "none")
       ELSE \/ api' = CallEnds([api EXCEPT !.redis_started = TRUE],
                               "redis", "start", "returned", "none")
            \/ api' = CallEnds([api EXCEPT !.redis_started = FALSE],
                               "redis", "start", "raised", "Exception")
  /\ UNCHANGED ClientFrame

RedisClient_stop_keeps_client ==
  /\ ops < MaxOps
  /\ ops' = ops + 1
  /\ IF ~RedisClient_is_started(api)
       THEN api' = CallEnds(api, "redis", "stop", "returned", "none")
       ELSE \/ api' = CallEnds([api EXCEPT !.redis_started = FALSE],
                               "redis", "stop", "returned", "none")
            \/ api' = CallEnds(api, "redis", "stop", "raised", "Exception")
  /\ UNCHANGED ClientFrame

(* RedisClient.stop: `finally` drops the client whether aclose() returned   *)
(* or raised                                                                *)
RedisClient_stop ==
  /\ ops < MaxOps
  /\ ops' = ops + 1
  /\ IF ~RedisClient_is_started(api)
       THEN api' = CallEnds(api, "redis", "stop", "returned", "none")
       ELSE \/ api' = CallEnds([api EXCEPT !.redis_started = FALSE],
                               "redis", "stop", "returned", "none")
            \/ api' = CallEnds([api EXCEPT !.redis_started = FALSE],
                               "redis", "stop", "raised", "Exception")
  /\ UNCHANGED ClientFrame

(* RedisClient.get_client *)
RedisClient_get_client ==
  /\ ops < MaxOps
  /\ ops' = ops + 1
  /\ api' = IF RedisClient_is_started(api)
              THEN CallEnds(api, "redis", "get_client", "returned", "none")
              ELSE CallEnds(api, "redis", "get_client", "raised", "RuntimeError")
  /\ UNCHANGED ClientFrame

InitClients == Init

NextClients ==
  \/ KafkaProducer_start
  \/ KafkaProducer_stop
  \/ \E item_id \in Items, task_id \in TaskIds :
       KafkaProducer_send_moderation_request(item_id, task_id)
  \/ RedisClient_start
  \/ RedisClient_stop
  \/ RedisClient_get_client

SpecClients == InitClients /\ [][NextClients]_vars

(* a key set with ex=... expires *)
Expire(key) ==
  /\ api.keys[key] # Null
  /\ api' = [api EXCEPT !.keys[key] = Null, !.ex[key] = 0]
  /\ UNCHANGED ApiOnly

(* ModelManager.unload / load_model *)
ModelUnload ==
  /\ api.model_loaded
  /\ api' = [api EXCEPT !.model_loaded = FALSE]
  /\ UNCHANGED ApiOnly

ModelLoad ==
  /\ ~api.model_loaded
  /\ api' = [api EXCEPT !.model_loaded = TRUE]
  /\ UNCHANGED ApiOnly

(* what model_manager.predict does from now on: it returns, raises          *)
(* RuntimeError or raises another exception                                 *)
ScoringBecomes(behaviour) ==
  /\ api.scoring # behaviour
  /\ api' = [api EXCEPT !.scoring = behaviour]
  /\ UNCHANGED ApiOnly

InitCache ==
  /\ ads = Items
  /\ rows = update_completed(create(create(<<>>, 1, "pending"), 2, "pending"),
                             1, TRUE, 80)
  /\ moderation = <<>>
  /\ parent = <<>>
  /\ dlq = <<>>
  /\ req = [r \in Requests |-> IdleReq]
  /\ worker = [w \in Workers |-> IdleWorker]
  /\ finished = [n |-> 0, off |-> 0, exc |-> NoExc, trace |-> <<>>, slept |-> 0]
  /\ returned = [n |-> 0, outcome |-> "none", item |-> 0, task |-> 0, exc |-> NoExc]
  /\ ops = 0
  /\ loop = Started
  /\ InitSync

NextCache ==
  \/ \E item_id \in Items : predict_violation_by_item_id(item_id)
  \/ \E item_id \in Items : predict_violation(item_id)
  \/ \E behaviour \in {"ok", "RuntimeError", "Exception"} : ScoringBecomes(behaviour)
  \/ RedisStart
  \/ RedisStop
  \/ \E key \in RedisKeys : Expire(key)
  \/ ModelUnload
  \/ ModelLoad
  \/ \E item \in Items : DeleteAd(item)

SpecCache == InitCache /\ [][NextCache]_vars

(* ------------------------------------------------------------------------ *)
(* PredictionCacheStorage driven alone: any caller, any arguments           *)
(* ------------------------------------------------------------------------ *)
PredictResponses ==
  {[is_violation |-> b, probability |-> q] : b \in BOOLEAN, q \in {20, 80}}

ModerationResultResponses ==
  UNION {{[task_id |-> t, status |-> "pending", is_violation |-> Null,
           probability |-> Null, error_message |-> Null],
          [task_id |-> t, status |-> "completed", is_violation |-> Some(FALSE),
           probability |-> Some(20), error_message |-> Null],
          [task_id |-> t, status |-> "failed", is_violation |-> Null,
           probability |-> Null, error_message |-> Some(StoreError.text)]}
         : t \in TaskIds}

(* Redis commands a call issued: none when it returned on is_started() *)
Commands(outcome) ==
  IF outcome \in {"cache_unavailable", "cache_set_unavailable"} THEN 0 ELSE 1

StorageOnly == <<ads, rows, moderation, parent, dlq, req, worker, finished, returned,
                 loop, simple, polled, closed>>

StorageEnds(op, key, outcome, value) ==
  /\ ops < MaxOps
  /\ ops' = ops + 1
  /\ cache_call' = [n |-> cache_call.n + 1, op |-> op, key |-> key,
                    outcome |-> outcome, value |-> value,
                    commands |-> Commands(outcome)]
  /\ UNCHANGED StorageOnly

StorageGet(item_id) ==
  \E out \in cache_get(api, item_id) :
    /\ StorageEnds("get", _sync_key(item_id), out[1], out[2])
    /\ UNCHANGED api

StorageSet(item_id, prediction) ==
  \E out \in cache_set(api, item_id, prediction) :
    /\ StorageEnds("set", _sync_key(item_id), out[1], Some(prediction))
    /\ api' = [api EXCEPT !.keys = out[2], !.ex = out[3]]

StorageGetResult(task_id) ==
  \E out \in cache_get_moderation_result(api, task_id) :
    /\ StorageEnds("get_moderation_result", _async_key(task_id), out[1], out[2])
    /\ UNCHANGED api

StorageSetResult(result) ==
  \E out \in cache_set_moderation_result(api, result) :
    /\ StorageEnds("set_moderation_result", _async_key(result.task_id), out[1],
                   Some(result))
    /\ api' = [api EXCEPT !.keys = out[2], !.ex = out[3]]

InitStorage == Init

NextStorage ==
  \/ \E item_id \in Items : StorageGet(item_id)
  \/ \E item_id \in Items, prediction \in PredictResponses :
       StorageSet(item_id, prediction)
  \/ \E task_id \in TaskIds : StorageGetResult(task_id)
  \/ \E result \in ModerationResultResponses : StorageSetResult(result)
  \/ RedisStop
  \/ RedisStart
  \/ \E key \in RedisKeys : Expire(key)

SpecStorage == InitStorage /\ [][NextStorage]_vars

(* ------------------------------------------------------------------------ *)
(* Closing an ad: ModerationService.close_ad and the cache invalidation     *)
(* ------------------------------------------------------------------------ *)
(* PredictionCacheStorage.delete / delete_moderation_result: the outcomes   *)
(* <<what happened, keys after, lifetimes after>>; like get and set, a      *)
(* no-op when Redis is not started or the call raises                       *)
redis_delete(a, key) ==
  IF ~a.redis_started THEN {<<"cache_delete_unavailable", a.keys, a.ex>>}
  ELSE {<<"cache_delete_error", a.keys, a.ex>>,
        <<"cache_delete", [a.keys EXCEPT ![key] = Null], [a.ex EXCEPT ![key] = 0]>>}

cache_delete(a, item_id) == redis_delete(a, _sync_key(item_id))

cache_delete_moderation_result(a, task_id) == redis_delete(a, _async_key(task_id))

(* one delete_moderation_result per task id, in order: the possible         *)
(* <<api after, number of keys deleted>>                                    *)
RECURSIVE delete_moderation_results(_, _, _)
delete_moderation_results(a, task_ids, deleted) ==
  IF task_ids = <<>> THEN {<<a, deleted>>}
  ELSE UNION {delete_moderation_results(
                [a EXCEPT !.keys = out[2], !.ex = out[3]], Tail(task_ids),
                IF out[1] = "cache_delete" THEN deleted + 1 ELSE deleted)
              : out \in cache_delete_moderation_result(a, Head(task_ids))}

ClosedEnds(item_id, error, task_ids, deleted) ==
  closed' = [n |-> closed.n + 1, item |-> item_id, error |-> error,
             task_ids |-> task_ids,
             requested |-> IF error = "none" THEN 1 + Len(task_ids) ELSE 0,
             deleted |-> deleted,
             present |-> Cardinality(
               {key \in {_sync_key(item_id)} \cup
                         {_async_key(task_ids[k]) : k \in DOMAIN task_ids} :
                  api.keys[key] # Null})]

(* ModerationService.close_ad: AdNotFoundError for a missing ad; otherwise  *)
(* the task rows of the item, the ad, the cached prediction of the item and *)
(* the cached result of each of its tasks are deleted                       *)
close_ad(item_id) ==
  /\ closed.n < MaxRows
  /\ IF ~AdFound(ads, item_id)
       THEN /\ ClosedEnds(item_id, "AdNotFoundError", <<>>, 0)
            /\ UNCHANGED <<ads, rows, api>>
       ELSE LET task_ids == get_task_ids_by_item_id(rows, item_id)
            IN /\ rows' = delete_by_item_id(rows, item_id)
               /\ ads' = ads \ {item_id}
               /\ \E first \in cache_delete(api, item_id) :
                  \E rest \in delete_moderation_results(
                                [api EXCEPT !.keys = first[2], !.ex = first[3]],
                                task_ids,
                                IF first[1] = "cache_delete" THEN 1 ELSE 0) :
                    /\ api' = rest[1]
                    /\ ClosedEnds(item_id, "none", task_ids, rest[2])
  /\ UNCHANGED <<moderation, parent, dlq, req, worker, finished, returned, ops, loop,
                 simple, polled, cache_call>>

(* tasks 1 and 2 belong to item 1, task 3 to item 2 *)
InitClose ==
  /\ ads = Items
  /\ rows = create(create(create(<<>>, 1, "pending"), 1, "pending"), 2, "pending")
  /\ moderation = <<>>
  /\ parent = <<>>
  /\ dlq = <<>>
  /\ req = [r \in Requests |-> IdleReq]
  /\ worker = [w \in Workers |-> IdleWorker]
  /\ finished = [n |-> 0, off |-> 0, exc |-> NoExc, trace |-> <<>>, slept |-> 0]
  /\ returned = [n |-> 0, outcome |-> "none", item |-> 0, task |-> 0, exc |-> NoExc]
  /\ ops = 0
  /\ loop = Started
  /\ InitSync

NextClose ==
  \/ \E item_id \in Items : close_ad(item_id)
  \/ \E item_id \in Items : StorageSet(item_id, predict(item_id))
  \/ \E result \in {r \in ModerationResultResponses : r.status = "completed"} :
       StorageSetResult(result)
  \/ RedisStop
  \/ RedisStart

SpecClose == InitClose /\ [][NextClose]_vars

(* ------------------------------------------------------------------------ *)
(* Polling: GET /moderation_result/{task_id} against the table              *)
(* ------------------------------------------------------------------------ *)
(* the endpoint calls AsyncModerationService.get_moderation_result and      *)
(* answers 200 with the response, or 404 on ModerationResultNotFoundError   *)
moderation_result(task_id) ==
  /\ ops < MaxOps
  /\ ops' = ops + 1
  /\ LET response == get_moderation_result(rows, task_id)
     IN polled' = [n |-> polled.n + 1, task |-> task_id,
                   status_code |-> IF "error" \in DOMAIN response THEN 404 ELSE 200,
                   response |-> Some(response)]
  /\ UNCHANGED <<ads, rows, moderation, parent, dlq, req, worker, finished, returned,
                 loop, api, simple, cache_call, closed>>

(* ------------------------------------------------------------------------ *)
(* The API and the worker side by side: synchronous predictions, polls,    *)
(* submits and the worker's run loop                                        *)
(* ------------------------------------------------------------------------ *)
InitSystem == Init

NextSystem ==
  \/ \E item_id \in Items : predict_violation_by_item_id(item_id)
  \/ \E t \in TaskIds : moderation_result(t)
  \/ \E r \in Requests, item \in Items : SubmitCreate(r, item)
  \/ \E r \in Requests : SubmitSend(r)
  \/ \E r \in Requests : SubmitMarkFailed(r)
  \/ \E m \in ForeignPayloads : ForeignPublish(m)
  \/ Fetch
  \/ NotFound(1)
  \/ Update(1)
  \/ Exhausted(1)
  \/ RetrySend(1)

SpecSystem == InitSystem /\ [][NextSystem]_vars

(* two tasks were submitted: task 1 for item 2, task 2 for item 1 *)
InitPoll ==
  /\ ads = Items
  /\ rows = create(create(<<>>, 2, "pending"), 1, "pending")
  /\ moderation = <<>>
  /\ parent = <<>>
  /\ dlq = <<>>
  /\ req = [r \in Requests |-> IdleReq]
  /\ worker = [w \in Workers |-> IdleWorker]
  /\ finished = [n |-> 0, off |-> 0, exc |-> NoExc, trace |-> <<>>, slept |-> 0]
  /\ returned = [n |-> 0, outcome |-> "none", item |-> 0, task |-> 0, exc |-> NoExc]
  /\ ops = 0
  /\ loop = Started
  /\ InitSync

NextPoll ==
  \/ \E t \in DOMAIN rows, p \in Predictions : StoreUpdateCompleted(t, p)
  \/ \E t \in DOMAIN rows, msg \in StoreMessages : StoreUpdateFailed(t, msg)
  \/ \E t \in TaskIds : moderation_result(t)
  \/ RedisStop
  \/ RedisStart

SpecPoll == InitPoll /\ [][NextPoll]_vars

(* ------------------------------------------------------------------------ *)
(* Properties                                                               *)
(* ------------------------------------------------------------------------ *)
Last(q) == q[Len(q)]
Has(q, x) == \E i \in DOMAIN q : q[i] = x
Terminal(row) == row.status # "pending"
SameResult(a, b) ==
  /\ a.status = b.status
  /\ a.is_violation = b.is_violation
  /\ a.probability = b.probability
  /\ a.error_message = b.error_message

(* C1: every task row has status=completed iff is_violation and probability *)
(* are both non-null, status=failed iff error_message is non-null, and      *)
(* status=pending iff all three are null.                                   *)
C1_RowShape ==
  \A k \in DOMAIN rows :
    /\ rows[k].status = "completed" <=>
         (rows[k].is_violation # Null /\ rows[k].probability # Null)
    /\ rows[k].status = "failed" <=> rows[k].error_message # Null
    /\ rows[k].status = "pending" <=>
         (rows[k].is_violation = Null /\ rows[k].probability = Null
            /\ rows[k].error_message = Null)

(* C2: once a task row is completed or failed, no later step of any call or *)
(* worker changes its status, is_violation, probability or error_message.   *)
C2_OneTransition ==
  [][\A k \in DOMAIN rows : Terminal(rows[k]) => SameResult(rows'[k], rows[k])]_vars

(* C3: every message a worker re-enqueues has the retry count of the        *)
(* message it was consumed for plus exactly 1, that consumed message had a  *)
(* retry count below MAX_RETRIES, and a failed processing of a message with *)
(* retry count >= MAX_RETRIES ends in send_to_dlq without a reschedule.     *)
C3_RetryMonotone ==
  /\ \A k \in DOMAIN moderation :
       parent[k] # 0 =>
         /\ RetryCountOf(moderation[k]) = RetryCountOf(moderation[parent[k]]) + 1
         /\ RetryCountOf(moderation[parent[k]]) < MAX_RETRIES
  /\ (finished.exc # NoExc /\ RetryCountOf(moderation[finished.off]) >= MAX_RETRIES)
       => /\ Last(finished.trace) \in {"dlq", "dlq_error"}
          /\ ~Has(finished.trace, "sleep")
          /\ ~Has(finished.trace, "requeue")

(* a message with retry count 2 failed and was re-enqueued with 3; the      *)
(* processing of that one failed too and reached the DLQ                    *)
C3_Witness ==
  /\ finished.off # 0
  /\ parent[finished.off] # 0
  /\ RetryCountOf(moderation[parent[finished.off]]) = MAX_RETRIES - 1
  /\ RetryCountOf(moderation[finished.off]) = MAX_RETRIES
  /\ finished.exc # NoExc
  /\ Last(finished.trace) = "dlq"
  /\ \E d \in DOMAIN dlq : dlq[d].offset = finished.off

(* C4: update_completed and update_failed leave a row that is already       *)
(* completed or failed unchanged, in any order and any number of times.     *)
C4_TerminalUntouched ==
  [][\A k \in DOMAIN rows : Terminal(rows[k]) => rows'[k] = rows[k]]_vars

C6_AdNotFoundNoEffect ==
  [][/\ \A r \in Requests :
          (req[r].pc = "idle" /\ req'[r].pc # "idle") => req'[r].item \in ads
     /\ (/\ returned'.n # returned.n
         /\ returned'.item \notin ads
         /\ \A r \in Requests : req[r].pc # "idle" => req'[r] = req[r]) =>
           /\ returned'.outcome = "AdNotFoundError"
           /\ returned'.task = 0
           /\ req' = req
           /\ rows' = rows
           /\ moderation' = moderation
           /\ dlq' = dlq]_vars

C6_Witness ==
  /\ returned.outcome = "AdNotFoundError"
  /\ returned.item = 2
  /\ 2 \notin ads
  /\ \A k \in DOMAIN rows : rows[k].item_id # 2
  /\ \A k \in DOMAIN moderation :
        "task_id" \in DOMAIN moderation[k] => moderation[k].item_id # 2

C8_ExhaustedToDlq ==
  [][\A w \in Workers :
       (/\ worker[w].pc = "exhausted"
        /\ worker'[w].pc = "idle"
        /\ worker[w].trace[1] = "lookup") =>
          LET d == moderation[worker[w].off]
              e == worker[w].exc
              tr == finished'.trace
          IN /\ Get(d, "retry_count", 0) >= 3
             /\ Last(worker[w].trace) \in {"predict_error", "update_error"}
             /\ moderation' = moderation
             /\ Has(tr, "update_failed") =>
                  \A k \in DOMAIN rows :
                     IF rows[k].item_id = d.item_id /\ rows[k].status = "pending"
                       THEN /\ rows'[k].status = "failed"
                            /\ rows'[k].error_message \in
                                 {Some(e.text),
                                  Some("max retries reached. last error: " \o e.text)}
                       ELSE rows'[k] = rows[k]
             /\ Has(tr, "update_failed_error") => rows' = rows
             /\ Last(tr) = "dlq" =>
                  /\ Len(dlq') = Len(dlq) + 1
                  /\ \A k \in DOMAIN dlq : dlq'[k] = dlq[k]
                  /\ Last(dlq').error_type = "max_retries_exceeded"
                  /\ Last(dlq').original_message = d
             /\ Last(tr) = "dlq_error" => dlq' = dlq]_vars

C8_Witness ==
  /\ finished.trace = <<"lookup", "predict_error", "update_failed", "dlq">>
  /\ dlq # <<>>
  /\ Last(dlq).error_type = "max_retries_exceeded"
  /\ Last(dlq).retry_count = 3
  /\ Last(dlq).offset = finished.off
  /\ \E k \in DOMAIN rows :
        /\ rows[k].item_id = Last(dlq).original_message.item_id
        /\ rows[k].status = "failed"
        /\ rows[k].error_message
             = Some("max retries reached. last error: model not loaded")

(* C9: when processing of a message with retry_count < 3 fails after the    *)
(* item id was extracted, whatever the type of the exception, the worker    *)
(* waits the retry delay and then, the send succeeding, publishes exactly   *)
(* one new message on the moderation topic with the same item_id and        *)
(* timestamp, retry_count + 1 and last_error set; no row changes (the task  *)
(* stays pending) and nothing is written to the DLQ.  Whether a failure is  *)
(* rescheduled depends only on retry_count.                                 *)
C9_Reschedule ==
  [][\A w \in Workers :
       /\ (worker[w].exc = NoExc /\ worker'[w].exc # NoExc) =>
             LET rc == Get(moderation[worker'[w].off], "retry_count", 0)
             IN /\ worker'[w].pc = IF rc < 3 THEN "sleeping" ELSE "exhausted"
                /\ worker'[w].pc = "sleeping" => worker'[w].slept = 5
                /\ rows' = rows
                /\ moderation' = moderation
                /\ dlq' = dlq
       /\ (/\ worker[w].pc = "sleeping"
           /\ worker'[w].pc = "idle"
           /\ Last(finished'.trace) = "requeue") =>
             LET d == moderation[worker[w].off]
                 m == Last(moderation')
             IN /\ Get(d, "retry_count", 0) < 3
                /\ worker[w].slept = 5
                /\ Len(moderation') = Len(moderation) + 1
                /\ \A k \in DOMAIN moderation : moderation'[k] = moderation[k]
                /\ DOMAIN m = {"item_id", "timestamp", "retry_count", "last_error"}
                /\ m.item_id = d.item_id
                /\ m.timestamp = d.timestamp
                /\ m.retry_count = Get(d, "retry_count", 0) + 1
                /\ m.last_error \in {"transient error: " \o worker[w].exc.text,
                                     "critical error: " \o worker[w].exc.text}
                /\ rows' = rows
                /\ dlq' = dlq]_vars

C9_Witness ==
  /\ finished.trace = <<"lookup", "predict", "update_error", "sleep", "requeue">>
  /\ finished.exc.type = "Exception"
  /\ finished.slept = 5
  /\ parent[Len(parent)] = finished.off
  /\ "task_id" \in DOMAIN moderation[finished.off]
  /\ Last(moderation).retry_count = 1
  /\ Last(moderation).timestamp = moderation[finished.off].timestamp
  /\ Len(moderation) > finished.off + 1
  /\ dlq = <<>>
  /\ \E k \in DOMAIN rows :
        rows[k].item_id = Last(moderation).item_id /\ rows[k].status = "pending"

(* C10: when the re-enqueue of a rescheduled message raises, nothing is     *)
(* appended to the moderation topic, the worker makes one DLQ send of the   *)
(* original message with error_type permanent and processing of the         *)
(* message ends there: it was rescheduled once and is not rescheduled       *)
(* again.                                                                   *)
C10_RequeueFailureToDlq ==
  [][\A w \in Workers :
       (worker[w].pc = "sleeping" /\ worker'[w].pc # "sleeping"
          /\ moderation' = moderation) =>
          LET tr == finished'.trace
              n == Len(tr)
          IN /\ worker'[w].pc = "idle"
             /\ finished'.n = finished.n + 1
             /\ finished'.off = worker[w].off
             /\ n >= 3
             /\ tr[n - 1] = "requeue_error"
             /\ tr[n - 2] = "sleep"
             /\ \A i \in 1..(n - 3) : tr[i] # "sleep"
             /\ rows' = rows
             /\ tr[n] = "dlq" =>
                  /\ Len(dlq') = Len(dlq) + 1
                  /\ \A k \in DOMAIN dlq : dlq'[k] = dlq[k]
                  /\ Last(dlq').error_type = "permanent"
                  /\ Last(dlq').original_message = moderation[worker[w].off]
                  /\ Last(dlq').offset = worker[w].off
             /\ tr[n] # "dlq" => (tr[n] = "dlq_error" /\ dlq' = dlq)]_vars

C10_Witness ==
  /\ finished.trace = <<"lookup", "predict_error", "sleep", "requeue_error", "dlq">>
  /\ dlq # <<>>
  /\ Last(dlq).error_type = "permanent"
  /\ Last(dlq).offset = finished.off
  /\ Last(dlq).original_message = moderation[finished.off]
  /\ \A k \in DOMAIN parent : parent[k] # finished.off

(* C11: a delivered message without item_id goes straight to the DLQ with   *)
(* error_type permanent, whatever its retry_count: processing ends in the   *)
(* step it starts in, with no ad lookup, no classifier call, no store       *)
(* update and no reschedule; no worker is ever busy with such a message.    *)
C11_MissingItemIdToDlq ==
  [][/\ (finished'.n # finished.n
           /\ "item_id" \notin DOMAIN moderation[finished'.off]) =>
          /\ worker' = worker
          /\ finished'.trace \in {<<"dlq">>, <<"dlq_error">>}
          /\ rows' = rows
          /\ moderation' = moderation
          /\ finished'.trace = <<"dlq">> =>
               /\ Len(dlq') = Len(dlq) + 1
               /\ \A k \in DOMAIN dlq : dlq'[k] = dlq[k]
               /\ Last(dlq').error_type = "permanent"
               /\ Last(dlq').original_message = moderation[finished'.off]
               /\ Last(dlq').error = "Missing item_id in message"
          /\ finished'.trace = <<"dlq_error">> => dlq' = dlq
     /\ \A w \in Workers :
          worker'[w].pc # "idle" =>
             "item_id" \in DOMAIN moderation'[worker'[w].off]]_vars

C11_Witness ==
  /\ finished.trace = <<"dlq">>
  /\ dlq # <<>>
  /\ Last(dlq).error_type = "permanent"
  /\ Last(dlq).offset = finished.off
  /\ "item_id" \notin DOMAIN Last(dlq).original_message
  /\ Last(dlq).retry_count = 3
  /\ \A k \in DOMAIN parent : parent[k] # finished.off

(* C12: when the worker's lookup finds no ad for the message's item_id,     *)
(* for every retry_count, the classifier is not called and nothing is       *)
(* re-enqueued; the failed-update, when it is applied, marks the item's     *)
(* pending rows failed and touches no other row; the DLQ send, when it      *)
(* succeeds, publishes one record with error_type permanent.                *)
C12_AdNotFoundPermanent ==
  [][\A w \in Workers :
       /\ (/\ worker[w].pc = "idle"
           /\ worker'[w].pc # "idle"
           /\ moderation[worker'[w].off].item_id \notin ads) =>
             \/ worker'[w].pc = "not_found" /\ worker'[w].trace = <<"lookup_none">>
             \/ worker'[w].trace[1] = "lookup_error"
       /\ (worker[w].pc = "not_found" /\ worker'[w].pc # "not_found") =>
             LET d == moderation[worker[w].off]
                 tr == finished'.trace
             IN /\ worker'[w].pc = "idle"
                /\ finished'.off = worker[w].off
                /\ Len(tr) = 3
                /\ tr[1] = "lookup_none"
                /\ moderation' = moderation
                /\ tr[2] = "update_failed" =>
                     \A k \in DOMAIN rows :
                        IF rows[k].item_id = d.item_id /\ rows[k].status = "pending"
                          THEN /\ rows'[k].status = "failed"
                               /\ rows'[k].error_message # Null
                               /\ rows'[k].is_violation = Null
                               /\ rows'[k].probability = Null
                          ELSE rows'[k] = rows[k]
                /\ tr[2] # "update_failed" =>
                     (tr[2] = "update_failed_error" /\ rows' = rows)
                /\ tr[3] = "dlq" =>
                     /\ Len(dlq') = Len(dlq) + 1
                     /\ \A k \in DOMAIN dlq : dlq'[k] = dlq[k]
                     /\ Last(dlq').error_type = "permanent"
                     /\ Last(dlq').original_message = d
                /\ tr[3] # "dlq" => (tr[3] = "dlq_error" /\ dlq' = dlq)]_vars

C12_Witness ==
  /\ finished.trace = <<"lookup_none", "update_failed", "dlq">>
  /\ dlq # <<>>
  /\ Last(dlq).error_type = "permanent"
  /\ Last(dlq).offset = finished.off
  /\ Last(dlq).retry_count = 0
  /\ \E k \in DOMAIN rows :
        /\ rows[k].item_id = Last(dlq).original_message.item_id
        /\ rows[k].status = "failed"
        /\ rows[k].error_message = Some("ad not found: item_id=1")

(* C13: the worker's update with the prediction changes only rows of the    *)
(* message's item that are still pending; when lookup and classifier        *)
(* succeeded and the item has no pending row (the task was resolved         *)
(* before), the update is a no-op and no error: no row changes, nothing is  *)
(* re-enqueued, nothing is sent to the DLQ and processing returns.          *)
C13_ConditionalUpdate ==
  [][\A w \in Workers :
       (worker[w].pc = "update" /\ worker'[w].pc = "idle") =>
          LET item == moderation[worker[w].off].item_id
              p == worker[w].pred[1]
          IN /\ \A k \in DOMAIN rows :
                  rows'[k] # rows[k] =>
                     /\ rows[k].status = "pending"
                     /\ rows[k].item_id = item
                     /\ rows'[k].status = "completed"
                     /\ rows'[k].is_violation = Some(p[1])
                     /\ rows'[k].probability = Some(p[2])
             /\ DOMAIN rows' = DOMAIN rows
             /\ moderation' = moderation
             /\ dlq' = dlq
             /\ finished'.exc = NoExc
             /\ finished'.off = worker[w].off
             /\ (\A k \in DOMAIN rows :
                    rows[k].item_id = item => rows[k].status # "pending") =>
                  /\ rows' = rows
                  /\ finished'.trace = <<"lookup", "predict", "update_noop">>]_vars

C13_Witness ==
  /\ finished.trace = <<"lookup", "predict", "update_noop">>
  /\ finished.exc = NoExc
  /\ dlq = <<>>
  /\ Len(moderation) = 1
  /\ "task_id" \in DOMAIN moderation[finished.off]
  /\ rows[moderation[finished.off].task_id].status = "completed"
  /\ rows[moderation[finished.off].task_id].item_id = moderation[finished.off].item_id

(* the submit message a delivered message descends from through retries *)
RECURSIVE Root(_)
Root(off) == IF parent[off] = 0 THEN off ELSE Root(parent[off])

(* C14: for every task T whose submit enqueued a message, polling T gives   *)
(* pending with null result fields until a worker processing T's message    *)
(* (or a retry of it) changes it; and when a worker has processed T's       *)
(* message with the ad found and the classifier returning (v, p), polling   *)
(* T gives completed without error_message, with is_violation = v and       *)
(* probability = p when T was still pending at that update.                 *)
C14_EndToEnd ==
  [][\A k \in DOMAIN moderation :
       "task_id" \in DOMAIN moderation[k] =>
         LET T == moderation[k].task_id
             before == get_moderation_result(rows, T)
             after == get_moderation_result(rows', T)
         IN /\ before.status = "pending" =>
                 /\ before.is_violation = Null
                 /\ before.probability = Null
                 /\ before.error_message = Null
            /\ (before.status = "pending" /\ after # before) =>
                 \E w \in Workers :
                    worker[w].pc # "idle" /\ Root(worker[w].off) = k
            /\ \A w \in Workers :
                 (/\ worker[w].pc = "update"
                  /\ worker'[w].pc = "idle"
                  /\ Root(worker[w].off) = k) =>
                    /\ after.status = "completed"
                    /\ after.error_message = Null
                    /\ before.status = "pending" =>
                         /\ after.is_violation = Some(worker[w].pred[1][1])
                         /\ after.probability = Some(worker[w].pred[1][2])]_vars

C17_TopicDiscipline ==
  [][/\ \A w \in Workers :
          worker'[w].pc # "idle" => worker'[w].off \in DOMAIN moderation'
     /\ \A k \in DOMAIN moderation' :
          /\ "original_message" \notin DOMAIN moderation'[k]
          /\ "error_type" \notin DOMAIN moderation'[k]
     /\ \A d \in DOMAIN dlq' :
          /\ "original_message" \in DOMAIN dlq'[d]
          /\ dlq'[d].topic = "moderation"
          /\ dlq'[d].offset \in DOMAIN moderation'
          /\ dlq'[d].original_message = moderation'[dlq'[d].offset]
     /\ finished'.n # finished.n =>
          /\ Last(finished'.trace) = "requeue" =>
               /\ Len(moderation') = Len(moderation) + 1
               /\ Last(moderation').retry_count
                    = Get(moderation[finished'.off], "retry_count", 0) + 1
               /\ dlq' = dlq
          /\ Last(finished'.trace) = "dlq" =>
               /\ Len(dlq') = Len(dlq) + 1
               /\ moderation' = moderation
          /\ Last(finished'.trace) \notin {"requeue", "dlq"} =>
               (moderation' = moderation /\ dlq' = dlq)]_vars

C17_Witness ==
  /\ dlq # <<>>
  /\ Last(dlq).offset = Len(moderation)
  /\ parent[Len(moderation)] # 0
  /\ Last(dlq).error_type = "max_retries_exceeded"
  /\ Last(dlq).topic = "moderation"
  /\ finished.off = Len(moderation)

(* C16: the offset of a message is committed only after its processing has  *)
(* returned, and a crash during processing (the retry delay included)       *)
(* makes the restarted worker resume at or before that message.             *)
C16_AtLeastOnce ==
  [][/\ worker'[1].pc # "idle" => loop'.committed <= worker'[1].off
     /\ (worker[1].pc # "idle" /\ worker'[1].pc = "idle" /\ finished' = finished) =>
          loop'.position <= worker[1].off]_vars

(* C18: after the stop signal no connection that the message in flight      *)
(* still needs is closed before the message has used it (the database for   *)
(* the store updates, the retry producer for the pending re-enqueue, the    *)
(* DLQ producer for the pending dead letter), and once the consumer is      *)
(* stopped no further message is started.                                   *)
C18_GracefulShutdown ==
  [][/\ (loop.db /\ ~loop'.db) =>
          worker[1].pc \notin {"update", "not_found", "exhausted"}
     /\ (loop.retry_producer /\ ~loop'.retry_producer) =>
          worker[1].pc # "sleeping"
     /\ (loop.dlq_producer /\ ~loop'.dlq_producer) =>
          worker[1].pc \notin {"sleeping", "not_found", "exhausted"}
     /\ (~loop.consumer /\ worker[1].pc = "idle") =>
          (worker'[1].pc = "idle" /\ finished' = finished)]_vars

(* C19: cache transparency. While the ad exists and the classifier is the   *)
(* one that produced the cached entries, a lookup by item id returns the    *)
(* classifier's verdict for that ad whether the cache hits, misses, fails   *)
(* or is not started; every cached entry decodes to that verdict; an ad     *)
(* that never existed in the cache is reported missing whatever the cache   *)
(* does; a lookup by task id is a function of the task row alone.           *)
C19_CacheTransparency ==
  [][/\ \A i \in Items :
          api.keys[_sync_key(i)] # Null =>
            loads(api.keys[_sync_key(i)][1]) = predict(i)
     /\ (simple'.n # simple.n /\ simple'.op = "predict_violation_by_item_id") =>
          LET i == simple'.item
          IN /\ (AdFound(ads, i) /\ api.model_loaded /\ api.scoring = "ok") =>
                  /\ simple'.result = Some(predict(i))
                  /\ simple'.error = "none"
             /\ (~AdFound(ads, i) /\ api.keys[_sync_key(i)] = Null) =>
                  /\ simple'.result = Null
                  /\ simple'.error = "AdNotFoundError"
     /\ \A t \in 1..(MaxRows + 1) :
          LET response == get_moderation_result(rows, t)
          IN IF get_by_id(rows, t) = Null
               THEN response.error = "ModerationResultNotFoundError"
               ELSE /\ response.status = get_by_id(rows, t)[1].status
                    /\ response.is_violation = get_by_id(rows, t)[1].is_violation
                    /\ response.probability = get_by_id(rows, t)[1].probability
    ]_vars

C19_Witness ==
  /\ ~api.redis_started
  /\ api.keys[_sync_key(2)] # Null
  /\ simple.item = 2
  /\ simple.trace[1] = "cache_unavailable"
  /\ simple.result = Some(predict(2))

(* C20: predict_violation_by_item_id is read-through. On a hit it returns   *)
(* the decoded entry of the item and does nothing else; otherwise, for an   *)
(* existing ad and a loaded model, it looks the ad up, calls the            *)
(* classifier, returns its verdict and, when the write goes through, leaves *)
(* that verdict under the item's key and no other key touched; a working    *)
(* cache that holds the entry hits.                                         *)
C20_ReadThrough ==
  [][(simple'.n # simple.n /\ simple'.op = "predict_violation_by_item_id") =>
       LET i == simple'.item
           tr == simple'.trace
           entry == api.keys[_sync_key(i)]
       IN /\ tr[1] = "cache_hit" =>
               /\ tr = <<"cache_hit">>
               /\ api.redis_started
               /\ entry # Null
               /\ simple'.result = Some(loads(entry[1]))
               /\ api' = api
          /\ (api.redis_started /\ entry # Null /\ tr[1] # "cache_error") =>
               tr[1] = "cache_hit"
          /\ (/\ tr[1] # "cache_hit"
              /\ AdFound(ads, i)
              /\ api.model_loaded
              /\ api.scoring = "ok") =>
               /\ Len(tr) = 5
               /\ SubSeq(tr, 2, 4) = <<"get_by_id", "is_available", "predict">>
               /\ simple'.result = Some(predict(i))
               /\ (api.redis_started /\ tr[5] # "cache_set_error") =>
                    tr[5] = "cache_set"
               /\ tr[5] = "cache_set" =>
                    /\ api.redis_started
                    /\ api'.keys[_sync_key(i)] = Some(dumps(predict(i)))
                    /\ api'.ex[_sync_key(i)] = TTL_SECONDS
                    /\ \A k \in RedisKeys \ {_sync_key(i)} :
                          api'.keys[k] = api.keys[k]
    ]_vars

C20_Witness ==
  /\ simple.n = 2
  /\ simple.item = 1
  /\ simple.trace = <<"cache_hit">>
  /\ simple.result = Some(predict(1))
  /\ api.keys[_sync_key(1)] = Some(dumps(predict(1)))
  /\ api.keys[_sync_key(2)] = Null

(* C21: get_moderation_result is read-through over the task-result cache.   *)
(* With the cache working, a poll of a task whose entry is present answers  *)
(* with that entry, and a poll of a task that has a row and no entry leaves *)
(* the response it gives under the task's key.                              *)
C21_ResultReadThrough ==
  [][polled'.n # polled.n =>
       LET t == polled'.task
           entry == api.keys[_async_key(t)]
       IN /\ (api.redis_started /\ entry # Null) =>
               polled'.response = Some(loads_result(entry[1]))
          /\ (api.redis_started /\ entry = Null /\ get_by_id(rows, t) # Null) =>
               api'.keys[_async_key(t)] = Some(dumps_result(polled'.response[1]))
    ]_vars

(* C22: a poll of a task id that has no row fails with                      *)
(* ModerationResultNotFound (404); otherwise the response carries exactly   *)
(* the id, status, is_violation, probability and error_message of the row   *)
(* with that id.                                                            *)
C22_ResultOfRow ==
  [][polled'.n # polled.n =>
       LET t == polled'.task
           response == polled'.response[1]
       IN IF \A k \in DOMAIN rows : rows[k].id # t
            THEN /\ response.error = "ModerationResultNotFoundError"
                 /\ polled'.status_code = 404
            ELSE /\ polled'.status_code = 200
                 /\ DOMAIN response = {"task_id", "status", "is_violation",
                                       "probability", "error_message"}
                 /\ \E k \in DOMAIN rows :
                      /\ rows[k].id = t
                      /\ response.task_id = t
                      /\ response.status = rows[k].status
                      /\ response.is_violation = rows[k].is_violation
                      /\ response.probability = rows[k].probability
                      /\ response.error_message = rows[k].error_message
    ]_vars

C22_Witness ==
  /\ polled.n = 2
  /\ polled.task = 1
  /\ polled.status_code = 200
  /\ polled.response[1].status = "completed"
  /\ polled.response[1].is_violation = Some(TRUE)
  /\ rows[1].item_id = 2
  /\ rows[1].status = "completed"

C24_CacheDegrades ==
  [][cache_call'.n # cache_call.n =>
       LET c == cache_call'
           read == c.op \in {"get", "get_moderation_result"}
       IN /\ c.op \in {"get", "set", "get_moderation_result", "set_moderation_result"}
          /\ c.outcome \in IF read
                             THEN {"cache_unavailable", "cache_error", "cache_miss",
                                   "cache_hit"}
                             ELSE {"cache_set_unavailable", "cache_set_error",
                                   "cache_set"}
          /\ read => api' = api
          /\ (read /\ c.outcome # "cache_hit") => c.value = Null
          /\ ~api.redis_started =>
               /\ c.commands = 0
               /\ c.outcome \in {"cache_unavailable", "cache_set_unavailable"}
               /\ api' = api
          /\ api.redis_started => c.commands = 1
          /\ c.outcome \in {"cache_error", "cache_set_error"} => api' = api
    ]_vars

C24_Witness ==
  /\ ~api.redis_started
  /\ cache_call.op = "get_moderation_result"
  /\ cache_call.outcome = "cache_unavailable"
  /\ cache_call.commands = 0
  /\ cache_call.value = Null
  /\ api.keys[cache_call.key] # Null

(* C25: cache round trip. An item key and a task key are never the same     *)
(* string. A set that goes through stores under prediction:item:{item} with *)
(* a lifetime of 900 s, a set_moderation_result under                       *)
(* prediction:task:{task_id} with 300 s, no other key is touched, and a     *)
(* read of that key then hits with a value equal to the one written; a read *)
(* that hits right after a write of the same key returns the written value. *)
C25_RoundTrip ==
  [][/\ \A i \in Items, t \in TaskIds : _sync_key(i) # _async_key(t)
     /\ cache_call'.n # cache_call.n =>
          LET c == cache_call'
          IN /\ (c.op = "set" /\ c.outcome = "cache_set") =>
                  \E i \in Items :
                    /\ c.key = "prediction:item:" \o ToString(i)
                    /\ api'.ex[c.key] = 900
                    /\ \A key \in RedisKeys \ {c.key} :
                         /\ api'.keys[key] = api.keys[key]
                         /\ api'.ex[key] = api.ex[key]
                    /\ <<"cache_hit", c.value>> \in cache_get(api', i)
                    /\ \A out \in cache_get(api', i) :
                         out[1] = "cache_hit" => out[2] = c.value
             /\ (c.op = "set_moderation_result" /\ c.outcome = "cache_set") =>
                  \E t \in TaskIds :
                    /\ c.value[1].task_id = t
                    /\ c.key = "prediction:task:" \o ToString(t)
                    /\ api'.ex[c.key] = 300
                    /\ \A key \in RedisKeys \ {c.key} :
                         /\ api'.keys[key] = api.keys[key]
                         /\ api'.ex[key] = api.ex[key]
                    /\ <<"cache_hit", c.value>> \in cache_get_moderation_result(api', t)
                    /\ \A out \in cache_get_moderation_result(api', t) :
                         out[1] = "cache_hit" => out[2] = c.value
             /\ (/\ c.op \in {"get", "get_moderation_result"}
                 /\ c.outcome = "cache_hit"
                 /\ cache_call.op \in {"set", "set_moderation_result"}
                 /\ cache_call.outcome = "cache_set"
                 /\ cache_call.key = c.key) =>
                  c.value = cache_call.value
    ]_vars

C25_Witness ==
  /\ cache_call.n = 3
  /\ cache_call.op = "get_moderation_result"
  /\ cache_call.outcome = "cache_hit"
  /\ cache_call.key = "prediction:task:2"
  /\ cache_call.value[1].status = "failed"
  /\ cache_call.value[1].is_violation = Null
  /\ api.ex["prediction:task:2"] = 300
  /\ api.ex["prediction:item:2"] = 900

C27_OnlyOwnRow ==
  [][\A w \in Workers :
       (worker[w].pc # "idle" /\ worker'[w] # worker[w]) =>
         LET message == moderation[worker[w].off]
         IN "task_id" \in DOMAIN message =>
              \A k \in DOMAIN rows :
                 rows'[k] # rows[k] => rows[k].id = message.task_id]_vars

(* C28: with every message delivered, the worker running and its store      *)
(* updates and sends succeeding, every task that a successful               *)
(* submit_moderation_request created eventually is completed or failed      *)
C28_EveryTaskResolves ==
  \A t \in 1..MaxRows :
    (returned.outcome = "returned" /\ returned.task = t)
      ~> (t \in DOMAIN rows /\ rows[t].status \in {"completed", "failed"})

(* a submitted task whose every attempt failed was marked failed and its    *)
(* message dead-lettered                                                    *)
C28_Witness ==
  /\ returned.outcome = "returned"
  /\ rows[returned.task].status = "failed"
  /\ Has(finished.trace, "update_failed")
  /\ \E k \in DOMAIN dlq : dlq[k].error_type = "max_retries_exceeded"
                            /\ dlq[k].retry_count = MAX_RETRIES

(* the number of re-enqueues between a message and the original it derives from *)
RECURSIVE Depth(_)
Depth(off) == IF parent[off] = 0 THEN 0 ELSE 1 + Depth(parent[off])

Children(off) == {c \in DOMAIN moderation : parent[c] = off}

Chain(off) == {c \in DOMAIN moderation : Root(c) = Root(off)}

FromSubmit(off) == "task_id" \in DOMAIN moderation[Root(off)]

DeadLettered(off) == \E k \in DOMAIN dlq : dlq[k].offset = off

DeadLetters ==
  /\ finished'.n # finished.n
  /\ Len(dlq') = Len(dlq) + 1
  /\ ~MissingItemId(moderation[finished'.off])
  /\ \A k \in DOMAIN finished'.trace : finished'.trace[k] \notin FailedUpdates

(* no task of the item of the dead-lettered message is pending any more *)
NonePending ==
  \A k \in DOMAIN rows :
    rows[k].item_id = moderation[finished'.off].item_id => rows'[k].status # "pending"

(* C30: whenever the worker dead-letters a message that carries an item_id  *)
(* and store updates succeed, no task of that item is left pending          *)
C30_NoPendingBehindDlq == [][DeadLetters => NonePending]_vars

(* C30 as amended: the same for every dead-lettering but the one of         *)
(* schedule_retry after a failed re-enqueue, which updates no task          *)
C30_NoPendingBehindDlqUnlessRequeueFailed ==
  [][(DeadLetters /\ ~Has(finished'.trace, "requeue_error")) => NonePending]_vars

(* the ad of a pending task is gone: the worker marked the task failed and  *)
(* dead-lettered the message as permanent                                   *)
C30_Witness ==
  /\ finished.trace = <<"lookup_none", "update_failed", "dlq">>
  /\ Last(dlq).error_type = "permanent"
  /\ Last(dlq).offset = finished.off
  /\ \E k \in DOMAIN rows :
       /\ rows[k].item_id = moderation[finished.off].item_id
       /\ rows[k].status = "failed"
       /\ rows[k].error_message = Some(AdNotFoundMsg(rows[k].item_id))

(* C31: whatever fields the payload has and whichever collaborator call     *)
(* fails, process_message returns without raising                           *)
C31_NeverRaises == \A w \in Workers : worker[w].pc # "raised"

(* the DLQ records of a consumed message *)
DlqRecords(off) == {k \in DOMAIN dlq : dlq[k].offset = off}

(* C32: for each consumed message the worker publishes at most one message  *)
(* in total: none when the call ends with the update (or its no-op), one    *)
(* rescheduled message and no DLQ record when it ends re-enqueued, one DLQ  *)
(* record and no rescheduled message when it ends dead-lettered             *)
C32_AtMostOnePublish ==
  /\ \A off \in DOMAIN moderation :
       Cardinality(Children(off)) + Cardinality(DlqRecords(off)) <= 1
  /\ finished.n > 0 /\ finished.trace # <<>> =>
       LET off == finished.off
           end == Last(finished.trace)
       IN /\ end \in {"update", "update_noop"} =>
               Children(off) = {} /\ DlqRecords(off) = {}
          /\ end = "requeue" =>
               Cardinality(Children(off)) = 1 /\ DlqRecords(off) = {}
          /\ end = "dlq" =>
               Children(off) = {} /\ Cardinality(DlqRecords(off)) = 1

(* a re-enqueue that failed, after which the message was dead-lettered: one *)
(* DLQ record and nothing on moderation                                     *)
C32_Witness ==
  /\ Has(finished.trace, "requeue_error")
  /\ Last(finished.trace) = "dlq"
  /\ Cardinality(DlqRecords(finished.off)) = 1
  /\ Children(finished.off) = {}

(* C33: every DLQ record wraps the consumed message: original_message is    *)
(* the consumed payload, retry_count the payload's (0 if absent),           *)
(* error_type is permanent or max_retries_exceeded, and topic, partition    *)
(* and offset are those of the consumed message                             *)
C33_DlqWrapsConsumed ==
  \A k \in DOMAIN dlq :
    /\ dlq[k].offset \in DOMAIN moderation
    /\ dlq[k].original_message = moderation[dlq[k].offset]
    /\ dlq[k].retry_count =
         (IF "retry_count" \in DOMAIN moderation[dlq[k].offset]
            THEN moderation[dlq[k].offset].retry_count ELSE 0)
    /\ dlq[k].error_type \in {"permanent", "max_retries_exceeded"}
    /\ dlq[k].topic = topic_moderation
    /\ dlq[k].partition = 0

(* the DLQ record of a payload without retry_count whose re-enqueue failed  *)
C33_Witness ==
  \E k \in DOMAIN dlq :
    /\ DOMAIN dlq[k].original_message = {"item_id", "timestamp"}
    /\ dlq[k].original_message = moderation[dlq[k].offset]
    /\ dlq[k].retry_count = 0
    /\ dlq[k].error_type = "permanent"

(* C34: a DLQ record has error_type max_retries_exceeded only if the        *)
(* consumed message's retry_count is at least 3; the records written for a  *)
(* missing item id, an ad that is not found or a failed re-enqueue are      *)
(* permanent                                                                *)
C34_ErrorTypeByCause ==
  /\ [](\A k \in DOMAIN dlq :
          dlq[k].error_type = "max_retries_exceeded" =>
            RetryCountOf(moderation[dlq[k].offset]) >= MAX_RETRIES)
  /\ [][(finished'.n # finished.n /\ Len(dlq') = Len(dlq) + 1) =>
          ((\/ MissingItemId(moderation[finished'.off])
            \/ Has(finished'.trace, "lookup_none")
            \/ Has(finished'.trace, "requeue_error"))
             => dlq'[Len(dlq')].error_type = "permanent")]_vars

(* the fourth failed attempt of a message with retry_count 3: the task is   *)
(* marked failed and the record says max_retries_exceeded                   *)
C34_Witness ==
  /\ dlq # <<>>
  /\ Last(dlq).error_type = "max_retries_exceeded"
  /\ moderation[Last(dlq).offset].retry_count = MAX_RETRIES
  /\ Last(finished.trace) = "dlq"
  /\ finished.off = Last(dlq).offset

(* C35: no step of the worker changes an entry of either cache namespace,   *)
(* whether it completes or fails a task, and an entry of the task-result    *)
(* namespace appears in no step but a poll                                  *)
C35_WorkerLeavesCache ==
  /\ [][(worker' # worker \/ finished' # finished) =>
          (api'.keys = api.keys /\ api'.ex = api.ex)]_vars
  /\ [][\A t \in TaskIds :
          (api.keys[_async_key(t)] = Null /\ api'.keys[_async_key(t)] # Null)
             => polled'.n # polled.n]_vars

(* the worker completed the task of item 1 while the prediction of item 1   *)
(* was cached: the entry is still there                                     *)
C35_Witness ==
  /\ api.keys[_sync_key(1)] # Null
  /\ simple.n > 0
  /\ finished.trace # <<>>
  /\ Last(finished.trace) = "update"
  /\ rows[1].status = "completed"

(* C36: a lookup by item id that fails (AdNotFound, ModelNotAvailable,      *)
(* PredictionError) leaves every cache entry as it was; the entry of an     *)
(* item changes only in a lookup of that item that succeeded, to the        *)
(* encoding of the verdict it returned; a hit is never an error             *)
C36_CacheOnlyAfterSuccess ==
  [][simple'.n # simple.n =>
       /\ simple'.error # "none" =>
            (api'.keys = api.keys /\ api'.ex = api.ex)
       /\ \A i \in Items :
            api'.keys[_sync_key(i)] # api.keys[_sync_key(i)] =>
              /\ simple'.op = "predict_violation_by_item_id"
              /\ simple'.item = i
              /\ simple'.error = "none"
              /\ simple'.result # Null
              /\ api'.keys[_sync_key(i)] = Some(dumps(simple'.result[1]))
       /\ simple'.trace = <<"cache_hit">> =>
            (simple'.error = "none" /\ simple'.result # Null)
    ]_vars

(* a lookup failed with PredictionError on a working, empty cache and left  *)
(* no entry; the next lookup of the item missed                             *)
C36_Witness ==
  /\ simple.n = 2
  /\ simple.op = "predict_violation_by_item_id"
  /\ simple.error = "PredictionError"
  /\ simple.trace[1] = "cache_miss"
  /\ api.redis_started
  /\ \A k \in RedisKeys : api.keys[k] = Null

(* C37: after every start() and stop() of the queue producer client,        *)
(* is_started() is true exactly when a start() has returned and no stop()   *)
(* has returned since: a start() that returns leaves it started, a start()  *)
(* that raises leaves it not started, a stop() that returns leaves it not   *)
(* started, a stop() that raises and a send change nothing; a send on a     *)
(* client that is not started raises RuntimeError and publishes nothing     *)
C37_ProducerLifecycle ==
  [][(api'.call.n # api.call.n /\ api'.call.client = "kafka") =>
       LET c == api'.call
       IN /\ (c.op = "start" /\ c.outcome = "returned") =>
               KafkaProducer_is_started(api')
          /\ (c.op = "start" /\ c.outcome = "raised") =>
               ~KafkaProducer_is_started(api')
          /\ (c.op = "stop" /\ c.outcome = "returned") =>
               ~KafkaProducer_is_started(api')
          /\ (c.op = "send" \/ (c.op = "stop" /\ c.outcome = "raised")) =>
               KafkaProducer_is_started(api') = KafkaProducer_is_started(api)
          /\ (c.op = "send" /\ ~KafkaProducer_is_started(api)) =>
               /\ c.outcome = "raised"
               /\ c.exc = "RuntimeError"
               /\ moderation' = moderation
    ]_vars

====
